---- MODULE Spec2Model ----
(***************************************************************************)
(* Verification model of the fertile-window prediction pipeline.           *)
(*                                                                         *)
(* Representation of the program's values                                  *)
(*   civil date 'YYYY-MM-DD'  a day index (an integer; consecutive civil   *)
(*                            dates are consecutive integers)              *)
(*   Date object              an instant in whole hours since 00:00 UTC of *)
(*                            day 0 (every instant the code builds is a    *)
(*                            whole number of hours)                       *)
(*   source weight            hundredths        (0.70  is 70)              *)
(*   prediction confidence    percent, as in the code (0..100)             *)
(*   raw day score            units of 10^-8    (weight * confidence *     *)
(*                            decay, decay in units of 10^-4)              *)
(*   day probability,         millionths        (0.3 is 300000)            *)
(*   thresholds, confidence                                                *)
(*   source agreement         units of 10^-4    (1.0 is 10000)             *)
(*   option values            hundredths        (0.15 is 15)               *)
(* Math.exp is evaluated in fixed point (ExpNeg); every other operation is *)
(* exact rational arithmetic carried out on the scaled integers.           *)
(***************************************************************************)
EXTENDS Integers, Sequences, FiniteSets, TLC

VARIABLES
    predictions,   \* the Prediction[] handed to reconcile
    options,       \* the ReconcilerOptions handed to reconcile (a partial record)
    hostZone,      \* the time zone of the host the code runs on
    result,        \* what reconcile returned, or Pending before the call
    call,          \* the arguments handed to a predictor or to the importer
    outcome        \* what that call returned, or Pending before the call

vars == <<predictions, options, hostZone, result, call, outcome>>

---------------------------------------------------------------------------
(* Generic helpers                                                         *)

Abs(x) == IF x < 0 THEN -x ELSE x

Min(a, b) == IF a < b THEN a ELSE b

Max(a, b) == IF a > b THEN a ELSE b

\* Array.prototype.reduce((a, b) => a + b, 0) over a sequence of integers
RECURSIVE SumSeq(_)
SumSeq(s) ==
    IF s = <<>> THEN 0 ELSE Head(s) + SumSeq(Tail(s))

\* Array.prototype.map
MapSeq(s, F(_)) == [i \in 1..Len(s) |-> F(s[i])]

\* { ...base, ...over } : object spread, later keys win
Spread(base, over) ==
    [k \in DOMAIN base \cup DOMAIN over |->
        IF k \in DOMAIN over THEN over[k] ELSE base[k]]

\* Array.prototype.sort with comparator (a, b) => key(a) - key(b), where
\* keys[i] is the key of s[i]: a stable sort, ascending by key.  SortOrder
\* is the order in which the indices of s come out (each index is inserted
\* after every earlier index whose key is <= its own).
RECURSIVE SortOrder(_, _)
SortOrder(n, keys) ==
    IF n = 0 THEN <<>>
    ELSE LET front == SortOrder(n - 1, keys)
             pos   == Cardinality({j \in 1..(n - 1) : keys[j] <= keys[n]})
         IN  SubSeq(front, 1, pos) \o <<n>> \o SubSeq(front, pos + 1, n - 1)

StableSort(s, keys) ==
    LET order == SortOrder(Len(s), keys)
    IN  [r \in 1..Len(s) |-> s[order[r]]]

---------------------------------------------------------------------------
(* Host time zone and the JavaScript Date operations the code uses         *)

\* A zone is its UTC offset in hours before (std) and from (dst) the UTC
\* instant `at` of its one daylight-saving transition inside the calendar.
ZoneOffset(zone, t) == IF t < zone.at THEN zone.std ELSE zone.dst

\* Local wall-clock time to instant (ECMAScript UTC(t)): a time that occurs
\* twice resolves to the earlier instant, a skipped time to the offset in
\* force before the transition.
LocalToUTC(zone, l) ==
    IF l - zone.std < zone.at THEN l - zone.std
    ELSE IF l - zone.dst >= zone.at THEN l - zone.dst
    ELSE l - zone.std

\* d.setDate(d.getDate() + k): k days later on the host's local calendar,
\* same local time of day
setDatePlus(zone, t, k) == LocalToUTC(zone, t + ZoneOffset(zone, t) + 24 * k)

\* new Date(dateStr + 'T00:00:00Z')
parseDate(dateStr) == dateStr * 24

\* date.toISOString().split('T')[0] : the UTC civil date of an instant
formatDate(date) == date \div 24

\* d.toLocaleDateString('en-US', ...) : the host-local civil date, printed
formatDateReadable(zone, d) == ToString((d + ZoneOffset(zone, d)) \div 24)

\* getDateRange(start, end): step by one local day while current <= end
RECURSIVE getDateRange(_, _, _)
getDateRange(zone, start, end) ==
    IF start > end THEN <<>>
    ELSE <<start>> \o getDateRange(zone, setDatePlus(zone, start, 1), end)

\* Math.round(Math.abs(a - b) / msPerDay) for the instants aNum/den and
\* bNum/den hours (den > 0); Math.round rounds halves up
daysBetweenFrac(aNum, bNum, den) ==
    (2 * Abs(aNum - bNum) + 24 * den) \div (48 * den)

daysBetween(a, b) == daysBetweenFrac(a, b, 1)

---------------------------------------------------------------------------
(* Reconciler: configuration                                               *)

\* DEFAULT_WEIGHTS, in hundredths
DEFAULT_WEIGHTS ==
    ("natural-cycles" :> 95) @@ ("fertility-friend" :> 90) @@
    ("fertile-algorithm" :> 85) @@
    ("flo" :> 70) @@ ("clue" :> 70) @@ ("ovia" :> 65) @@
    ("manual" :> 60) @@ ("calendar" :> 55) @@ ("symptoms" :> 75)

\* DEFAULT_OPTIONS (threshold and penalty in hundredths)
DEFAULT_OPTIONS ==
    [ weights                |-> DEFAULT_WEIGHTS,
      minConfidenceThreshold |-> 30,
      disagreementPenalty    |-> 15,
      minSources             |-> 1 ]

\* weights[source] ?? 0.5
getWeight(source, weights) ==
    IF source \in DOMAIN weights THEN weights[source] ELSE 50

\* The value of an optional field that is absent (undefined)
Undefined == -1

\* p.confidence ?? 50
confidenceOrDefault(p) ==
    IF p.confidence = Undefined THEN 50 ELSE p.confidence

---------------------------------------------------------------------------
(* Math.exp on the arguments the code passes, in fixed point               *)

\* exp(-i) for a whole i >= 0, in units of 10^-4, rounded to nearest
ExpNegWhole(i) ==
    IF i >= 10 THEN 0
    ELSE <<10000, 3679, 1353, 498, 183, 67, 25, 9, 3, 1>>[i + 1]

\* The k-th term (r/q)^k / k! of the exponential series, in millionths
RECURSIVE ExpTerm(_, _, _)
ExpTerm(r, q, k) ==
    IF k = 0 THEN 1000000 ELSE (ExpTerm(r, q, k - 1) * r) \div (q * k)

\* exp(-r/q) for 0 <= r < q, in millionths: the alternating series to the
\* tenth term (the eleventh is below 10^-7)
ExpNegFraction(r, q) ==
    LET T(k) == ExpTerm(r, q, k)
    IN  T(0) - T(1) + T(2) - T(3) + T(4) - T(5) + T(6) - T(7) + T(8) - T(9) + T(10)

\* Math.exp(-num/den) for num >= 0 and den > 0, in units of 10^-4
ExpNeg(num, den) ==
    IF num \div den >= 10 THEN 0
    ELSE (ExpNegWhole(num \div den) * ((ExpNegFraction(num % den, den) + 50) \div 100)
            + 5000) \div 10000

\* Math.exp(-Math.pow(daysOutside, 2) / 2), in units of 10^-4; the values
\* for the first few distances are computed once
DecayOfFirstDays == [k \in 0..5 |-> ExpNeg(k * k, 2)]

Decay(daysOutside) ==
    IF daysOutside \in DOMAIN DecayOfFirstDays THEN DecayOfFirstDays[daysOutside]
    ELSE ExpNeg(daysOutside * daysOutside, 2)

---------------------------------------------------------------------------
(* Reconciler: agreement and outliers                                      *)

\* n times the numerator of the population variance of xs (whole numbers):
\* variance = VarianceNumerator(xs) / Len(xs)^2
VarianceNumerator(xs) ==
    LET n == Len(xs)
    IN  n * SumSeq([i \in 1..n |-> xs[i] * xs[i]]) - SumSeq(xs) * SumSeq(xs)

\* calculateSourceAgreement, in units of 10^-4.  The instants are UTC
\* midnights, so (s - avg) / msPerDay is a difference of day indices.
calculateSourceAgreement(preds) ==
    IF Len(preds) <= 1 THEN 10000
    ELSE LET n      == Len(preds)
             starts == [i \in 1..n |-> parseDate(preds[i].fertileStart) \div 24]
             ends   == [i \in 1..n |-> parseDate(preds[i].fertileEnd) \div 24]
             \* avgVariance = (startVariance + endVariance) / 2, over n^2
             twiceAvgVariance == VarianceNumerator(starts) + VarianceNumerator(ends)
         IN  \* Math.exp(-avgVariance / 8)
             ExpNeg(twiceAvgVariance, 16 * n * n)

\* identifyOutliers: the sources, in input order, of the predictions more
\* than 3 (rounded) days from the weighted centroid.  With a total weight of
\* 0 the centroid is NaN and no comparison `> 3` succeeds.
identifyOutliers(preds, weights) ==
    IF Len(preds) <= 2 THEN <<>>
    ELSE LET n   == Len(preds)
             w(i) == getWeight(preds[i].source, weights)
             totalWeight      == SumSeq([i \in 1..n |-> w(i)])
             weightedStartSum == SumSeq([i \in 1..n |-> parseDate(preds[i].fertileStart) * w(i)])
             weightedEndSum   == SumSeq([i \in 1..n |-> parseDate(preds[i].fertileEnd) * w(i)])
             isOutlier(p) ==
                 /\ totalWeight > 0
                 /\ LET startDiff == daysBetweenFrac(parseDate(p.fertileStart) * totalWeight,
                                                     weightedStartSum, totalWeight)
                        endDiff   == daysBetweenFrac(parseDate(p.fertileEnd) * totalWeight,
                                                     weightedEndSum, totalWeight)
                    IN  startDiff > 3 \/ endDiff > 3
         IN  MapSeq(SelectSeq(preds, isOutlier), LAMBDA p : p.source)

---------------------------------------------------------------------------
(* Reconciler: day scores and window                                       *)

\* Variant of rawScore that scores the source's own ovulation day ten times
rawScoreFavoursOvulation(p, date, weights) ==
    LET start    == parseDate(p.fertileStart)
        end      == parseDate(p.fertileEnd)
        weight   == getWeight(p.source, weights)
        inWindow == date >= start /\ date <= end
        boost    == IF p.ovulationDate # Undefined /\ date = parseDate(p.ovulationDate)
                    THEN 10 ELSE 1
    IN  [ source   |-> p.source,
          score    |-> IF inWindow THEN boost * weight * confidenceOrDefault(p) * 10000
                       ELSE 0,
          inWindow |-> inWindow,
          recorded |-> inWindow ]

\* The rawScores entry of prediction p for the instant date: its source and
\* score (units of 10^-8), and whether the code records it
rawScore(p, date, weights) ==
    LET start    == parseDate(p.fertileStart)
        end      == parseDate(p.fertileEnd)
        weight   == getWeight(p.source, weights)
        inWindow == date >= start /\ date <= end
        daysOutside == Min(daysBetween(date, start), daysBetween(date, end))
        decayScore  == weight * confidenceOrDefault(p) * Decay(daysOutside)
    IN  [ source   |-> p.source,
          score    |-> IF inWindow THEN weight * confidenceOrDefault(p) * 10000
                       ELSE decayScore,
          inWindow |-> inWindow,
          \* if (decayScore > 0.1)
          recorded |-> inWindow \/ decayScore > 10000000 ]

\* The DayScore of one instant of the range
dayScore(preds, date, weights) ==
    LET all       == [i \in 1..Len(preds) |-> rawScore(preds[i], date, weights)]
        rawScores == SelectSeq(all, LAMBDA s : s.recorded)
        totalWeight == SumSeq([i \in 1..Len(preds) |-> getWeight(preds[i].source, weights)])
    IN  [ date        |-> formatDate(date),
          probability |-> IF totalWeight > 0
                          THEN SumSeq(MapSeq(rawScores, LAMBDA s : s.score)) \div totalWeight
                          ELSE 0,
          sources     |-> MapSeq(SelectSeq(all, LAMBDA s : s.inWindow), LAMBDA s : s.source),
          rawScores   |-> MapSeq(rawScores, LAMBDA s : [source |-> s.source, score |-> s.score]) ]

\* The smallest / largest element of a non-empty sequence of integers
SeqMin(xs) == CHOOSE x \in {xs[i] : i \in 1..Len(xs)} : \A i \in 1..Len(xs) : x <= xs[i]

SeqMax(xs) == CHOOSE x \in {xs[i] : i \in 1..Len(xs)} : \A i \in 1..Len(xs) : x >= xs[i]

\* buildDayScores
buildDayScores(preds, weights, zone) ==
    IF Len(preds) = 0 THEN <<>>
    ELSE LET minDate == SeqMin(MapSeq(preds, LAMBDA p : parseDate(p.fertileStart)))
             maxDate == SeqMax(MapSeq(preds, LAMBDA p : parseDate(p.fertileEnd)))
             \* extended by 2 days on each side, on the host's local calendar
             extendedMin == setDatePlus(zone, minDate, -2)
             extendedMax == setDatePlus(zone, maxDate, 2)
             allDates == getDateRange(zone, extendedMin, extendedMax)
         IN  MapSeq(allDates, LAMBDA date : dayScore(preds, date, weights))

\* The scan of findFertileWindow over sortedDays[i..], 1-based; st holds
\* bestStart, bestLength, currentStart, currentLength
RECURSIVE scanRuns(_, _, _)
scanRuns(sortedDays, i, st) ==
    IF i > Len(sortedDays)
    THEN \* after the loop
         IF st.currentLength > st.bestLength
         THEN [st EXCEPT !.bestLength = st.currentLength, !.bestStart = st.currentStart]
         ELSE st
    ELSE LET prevDate == parseDate(sortedDays[i - 1].date)
             currDate == parseDate(sortedDays[i].date)
             gap == daysBetween(currDate, prevDate)
         IN  IF gap = 1
             THEN scanRuns(sortedDays, i + 1,
                           [st EXCEPT !.currentLength = st.currentLength + 1])
             ELSE LET closed == IF st.currentLength > st.bestLength
                                THEN [st EXCEPT !.bestLength = st.currentLength,
                                                !.bestStart = st.currentStart]
                                ELSE st
                  IN  scanRuns(sortedDays, i + 1,
                               [closed EXCEPT !.currentStart = i, !.currentLength = 1])

\* windowDays.reduce((best, day) => day.probability > best.probability ? day : best)
RECURSIVE peakOf(_, _)
peakOf(days, best) ==
    IF days = <<>> THEN best
    ELSE peakOf(Tail(days),
                IF Head(days).probability > best.probability THEN Head(days) ELSE best)

\* findFertileWindow; threshold in millionths.  start = Undefined stands
\* for { start: null, end: null, peak: null }.
findFertileWindow(dayScores, threshold) ==
    LET fertileDays == SelectSeq(dayScores, LAMBDA d : d.probability >= threshold)
    IN  IF Len(fertileDays) = 0
        THEN [start |-> Undefined, end |-> Undefined, peak |-> Undefined]
        ELSE LET sortedDays == StableSort(fertileDays,
                                          MapSeq(fertileDays, LAMBDA d : parseDate(d.date)))
                 st == scanRuns(sortedDays, 2,
                                [bestStart |-> 1, bestLength |-> 1,
                                 currentStart |-> 1, currentLength |-> 1])
                 windowDays == SubSeq(sortedDays, st.bestStart,
                                      st.bestStart + st.bestLength - 1)
                 peak == peakOf(windowDays, windowDays[1])
             IN  [start |-> parseDate(windowDays[1].date),
                  end   |-> parseDate(windowDays[Len(windowDays)].date),
                  peak  |-> parseDate(peak.date)]

---------------------------------------------------------------------------
(* Reconciler: explanations                                                *)

\* Array.prototype.join(', ') over a sequence of strings
RECURSIVE join(_)
join(strs) ==
    IF strs = <<>> THEN ""
    ELSE IF Len(strs) = 1 THEN strs[1]
    ELSE strs[1] \o ", " \o join(Tail(strs))

\* [...new Set(xs)] : the first occurrence of each element, in order
uniqueInOrder(xs) ==
    LET firsts == {i \in 1..Len(xs) : \A j \in 1..(i - 1) : xs[j] # xs[i]}
        idx    == SelectSeq([i \in 1..Len(xs) |-> i], LAMBDA i : i \in firsts)
    IN  MapSeq(idx, LAMBDA i : xs[i])

\* generateExplanations (agreement in units of 10^-4)
generateExplanations(preds, dayScores, sourceAgreement, outliers, fertileStart, fertileEnd, zone) ==
    LET sourceCount   == Len(preds)
        uniqueSources == uniqueInOrder(MapSeq(preds, LAMBDA p : p.source))
        sourceLine ==
            IF sourceCount = 1
            THEN "Based on " \o preds[1].source \o " prediction only"
            ELSE "Reconciled from " \o ToString(sourceCount) \o " predictions ("
                 \o join(uniqueSources) \o ")"
        agreementLine ==
            IF sourceAgreement >= 9000
            THEN "Strong agreement: All sources align closely"
            ELSE IF sourceAgreement >= 7000
            THEN "Good agreement: Sources mostly align"
            ELSE IF sourceAgreement >= 5000
            THEN "Moderate agreement: Some variation between sources"
            ELSE "Low agreement: Sources show significant variation"
        windowLength == daysBetween(fertileEnd, fertileStart) + 1
        windowLine ==
            "Fertile window: " \o formatDateReadable(zone, fertileStart) \o " - "
            \o formatDateReadable(zone, fertileEnd)
            \o " (" \o ToString(windowLength) \o " days)"
        outlierLines ==
            IF Len(outliers) > 0
            THEN << "Note: " \o join(outliers) \o " "
                    \o (IF Len(outliers) = 1 THEN "differs" ELSE "differ")
                    \o " significantly from consensus" >>
            ELSE <<>>
        \* filter(probability >= 0.8).sort((a, b) => b.probability - a.probability)
        highDays == SelectSeq(dayScores, LAMBDA d : d.probability >= 800000)
        peakDays == StableSort(highDays, MapSeq(highDays, LAMBDA d : -d.probability))
        peakLines ==
            IF Len(peakDays) > 0
            THEN << "Peak fertility: "
                    \o formatDateReadable(zone, parseDate(peakDays[1].date)) >>
            ELSE <<>>
    IN  <<sourceLine, agreementLine, windowLine>> \o outlierLines \o peakLines

---------------------------------------------------------------------------
(* Reconciler: reconcile                                                   *)

\* The value reconcile returns for `return null`
Null == [tag |-> "null"]

\* Variant of finalConfidence with the source bonus starting at 0.5 instead
\* of 0.7
finalConfidenceLowBonus(sourceAgreement, n, nOutliers) ==
    LET confidence == sourceAgreement * Min(10, 5 + n) * Max(5, 10 - nOutliers)
    IN  Min(1000000, Max(0, confidence))

\* confidence = agreement * min(1, 0.7 + 0.1 n) * max(0.5, 1 - 0.1 outliers),
\* clamped to [0, 1]; in millionths (agreement in units of 10^-4, the two
\* factors in tenths)
finalConfidence(sourceAgreement, n, nOutliers) ==
    LET confidence == sourceAgreement * Min(10, 7 + n) * Max(5, 10 - nOutliers)
    IN  Min(1000000, Max(0, confidence))

\* Variant of fallbackConfidence on the 0..100 scale of Prediction.confidence:
\* Math.max(20, sourceAgreement * 50)
fallbackConfidencePercent(sourceAgreement) == Max(20000000, sourceAgreement * 5000)

\* Math.max(0.2, sourceAgreement * 0.5), in millionths
fallbackConfidence(sourceAgreement) == Max(200000, sourceAgreement * 50)

\* effectiveThreshold, in millionths
effectiveThreshold(opts, sourceAgreement) ==
    opts.minConfidenceThreshold * 10000
    + (IF sourceAgreement < 7000
       THEN opts.disagreementPenalty * (10000 - sourceAgreement)
       ELSE 0)

\* Variant of belowMinSources with <= for <
belowMinSourcesInclusive(preds, opts) == Len(preds) <= opts.minSources

\* predictions.length < opts.minSources
belowMinSources(preds, opts) == Len(preds) < opts.minSources

\* Variant of validPredictionsOf that keeps every prediction
validPredictionsUnfiltered(preds) == preds

\* predictions.filter((p) => (p.confidence ?? 50) > 0)
validPredictionsOf(preds) == SelectSeq(preds, LAMBDA p : confidenceOrDefault(p) > 0)

\* Variant of fallbackResult whose sort is ascending by weight, so that the
\* least weighted prediction comes first
fallbackResultAscending(validPredictions, weights, sourceAgreement, outliers, dayScores) ==
    LET sortedByWeight ==
            StableSort(validPredictions,
                       MapSeq(validPredictions, LAMBDA p : getWeight(p.source, weights)))
        best == sortedByWeight[1]
    IN  [ tag           |-> "result",
          fertileStart  |-> parseDate(best.fertileStart),
          fertileEnd    |-> parseDate(best.fertileEnd),
          ovulationDate |-> IF best.ovulationDate # Undefined
                            THEN parseDate(best.ovulationDate) ELSE Undefined,
          confidence    |-> Max(200000, sourceAgreement * 50),
          explain       |-> << "Low confidence: Could not reconcile predictions",
                               "Falling back to " \o best.source \o " prediction" >>,
          diagnostics   |-> [ sourceAgreement  |-> sourceAgreement,
                              outliers         |-> outliers,
                              weights          |-> weights,
                              dayScores        |-> dayScores,
                              inputPredictions |-> Len(validPredictions) ] ]

\* The fallback branch: the most weighted prediction, order kept among
\* equal weights (a stable sort, descending by weight)
fallbackResult(validPredictions, weights, sourceAgreement, outliers, dayScores) ==
    LET sortedByWeight ==
            StableSort(validPredictions,
                       MapSeq(validPredictions, LAMBDA p : -getWeight(p.source, weights)))
        best == sortedByWeight[1]
    IN  [ tag           |-> "result",
          fertileStart  |-> parseDate(best.fertileStart),
          fertileEnd    |-> parseDate(best.fertileEnd),
          ovulationDate |-> IF best.ovulationDate # Undefined
                            THEN parseDate(best.ovulationDate) ELSE Undefined,
          confidence    |-> fallbackConfidence(sourceAgreement),
          explain       |-> << "Low confidence: Could not reconcile predictions",
                               "Falling back to " \o best.source \o " prediction" >>,
          diagnostics   |-> [ sourceAgreement  |-> sourceAgreement,
                              outliers         |-> outliers,
                              weights          |-> weights,
                              dayScores        |-> dayScores,
                              inputPredictions |-> Len(validPredictions) ] ]

\* reconcile(predictions, options) on a host in time zone `zone`
reconcile(preds, opt, zone) ==
    LET opts    == Spread(DEFAULT_OPTIONS, opt)
        weights == Spread(DEFAULT_WEIGHTS, opts.weights)
        validPredictions == validPredictionsOf(preds)
        sourceAgreement  == calculateSourceAgreement(validPredictions)
        outliers  == identifyOutliers(validPredictions, weights)
        dayScores == buildDayScores(validPredictions, weights, zone)
        window    == findFertileWindow(dayScores, effectiveThreshold(opts, sourceAgreement))
    IN  IF belowMinSources(preds, opts) THEN Null
        ELSE IF Len(validPredictions) = 0 THEN Null
        ELSE IF window.start = Undefined \/ window.end = Undefined
        THEN fallbackResult(validPredictions, weights, sourceAgreement, outliers, dayScores)
        ELSE [ tag           |-> "result",
               fertileStart  |-> window.start,
               fertileEnd    |-> window.end,
               ovulationDate |-> window.peak,
               confidence    |-> finalConfidence(sourceAgreement, Len(validPredictions),
                                                 Len(outliers)),
               explain       |-> generateExplanations(validPredictions, dayScores,
                                                      sourceAgreement, outliers,
                                                      window.start, window.end, zone),
               diagnostics   |-> [ sourceAgreement  |-> sourceAgreement,
                                   outliers         |-> outliers,
                                   weights          |-> weights,
                                   dayScores        |-> dayScores,
                                   inputPredictions |-> Len(validPredictions) ] ]

---------------------------------------------------------------------------
(* Civil dates: ISODateString as [y, m, d], time values as whole days      *)

\* Date.UTC of a civil date, in days since 1970-01-01
DaysFromCivil(date) ==
    LET y   == IF date.m <= 2 THEN date.y - 1 ELSE date.y
        era == y \div 400
        yoe == y - era * 400
        mp  == IF date.m > 2 THEN date.m - 3 ELSE date.m + 9
        doy == (153 * mp + 2) \div 5 + date.d - 1
        doe == yoe * 365 + yoe \div 4 - yoe \div 100 + doy
    IN  era * 146097 + doe - 719468

\* The UTC civil date of a time value in days: toISOString().split('T')[0]
CivilFromDays(z) ==
    LET zz  == z + 719468
        era == zz \div 146097
        doe == zz - era * 146097
        yoe == (doe - doe \div 1460 + doe \div 36524 - doe \div 146096) \div 365
        doy == doe - (365 * yoe + yoe \div 4 - yoe \div 100)
        mp  == (5 * doy + 2) \div 153
        d   == doy - (153 * mp + 2) \div 5 + 1
        m   == IF mp < 10 THEN mp + 3 ELSE mp - 9
    IN  [y |-> yoe + era * 400 + (IF m <= 2 THEN 1 ELSE 0), m |-> m, d |-> d]

\* A civil date written out
ISODate(y, m, d) == [y |-> y, m |-> m, d |-> d]

---------------------------------------------------------------------------
(* Calendar predictor (confidence in half points)                          *)

CALENDAR_DEFAULT_OPTIONS ==
    [ daysBeforeOvulation |-> 5, daysAfterOvulation |-> 1,
      lutealPhaseLength |-> 14, regularityBonus |-> 10 ]

\* addDays of the calendar predictor: setUTCDate(getUTCDate() + days)
addDays(dateStr, days) == CivilFromDays(DaysFromCivil(dateStr) + days)

\* Math.round of the quotient num / den, den > 0: halves go up
RoundDiv(num, den) == (2 * num + den) \div (2 * den)

\* The variance whose square root calculateCycleVariability returns, as the
\* fraction num / den; 25 / 1 (variability 5) with fewer than two cycles
calculateCycleVariability(cycles) ==
    LET n       == Len(cycles)
        lengths == [i \in 1..n |-> cycles[i].length]
        total   == SumSeq(lengths)
    IN  IF n < 2 THEN [num |-> 25, den |-> 1]
        ELSE [ num |-> n * SumSeq([i \in 1..n |-> lengths[i] * lengths[i]]) - total * total,
               den |-> n * n ]

\* variability <= k and variability > k, for a whole k
VariabilityAtMost(variability, k) == variability.num <= k * k * variability.den

\* Variant of calculateAverageCycleLength that truncates the mean
calculateAverageCycleLengthTruncated(cycles) ==
    IF Len(cycles) = 0 THEN 28
    ELSE SumSeq([i \in 1..Len(cycles) |-> cycles[i].length]) \div Len(cycles)

calculateAverageCycleLength(cycles) ==
    IF Len(cycles) = 0 THEN 28
    ELSE RoundDiv(SumSeq([i \in 1..Len(cycles) |-> cycles[i].length]), Len(cycles))

\* Variant of calendarConfidence without the final clamp
calendarConfidenceUnclamped(nCycles, variability, regularityBonus) ==
    LET withHistory == IF nCycles >= 6 THEN 130
                       ELSE IF nCycles >= 3 THEN 120
                       ELSE 110
    IN  IF VariabilityAtMost(variability, 2) THEN withHistory + 2 * regularityBonus
        ELSE IF VariabilityAtMost(variability, 4) THEN withHistory + regularityBonus
        ELSE IF ~VariabilityAtMost(variability, 6) THEN withHistory - 30
        ELSE withHistory

\* The confidence of predictFromCalendar, in half points
calendarConfidence(nCycles, variability, regularityBonus) ==
    LET base == 110
        withHistory == IF nCycles >= 6 THEN base + 20
                       ELSE IF nCycles >= 3 THEN base + 10
                       ELSE base
        withRegularity ==
            IF VariabilityAtMost(variability, 2) THEN withHistory + 2 * regularityBonus
            ELSE IF VariabilityAtMost(variability, 4) THEN withHistory + regularityBonus
            ELSE IF ~VariabilityAtMost(variability, 6) THEN withHistory - 30
            ELSE withHistory
    IN  Max(40, Min(160, withRegularity))

predictFromCalendar(currentCycleStart, historicalCycles, opt) ==
    LET opts == Spread(CALENDAR_DEFAULT_OPTIONS, opt)
        avgCycleLength  == calculateAverageCycleLength(historicalCycles)
        variability     == calculateCycleVariability(historicalCycles)
        ovulationDay    == avgCycleLength - opts.lutealPhaseLength
        fertileStartDay == ovulationDay - opts.daysBeforeOvulation
        fertileEndDay   == ovulationDay + opts.daysAfterOvulation
    IN  [ source        |-> "manual",
          fertileStart  |-> addDays(currentCycleStart, fertileStartDay),
          fertileEnd    |-> addDays(currentCycleStart, fertileEndDay),
          ovulationDate |-> addDays(currentCycleStart, ovulationDay),
          confidence    |-> calendarConfidence(Len(historicalCycles), variability,
                                               opts.regularityBonus) ]

\* Variant of multipleCyclesFrom that moves the seed by 28 days whatever the
\* history
RECURSIVE multipleCyclesFromEvery28(_, _, _, _, _)
multipleCyclesFromEvery28(i, cycleStart, historicalCycles, numberOfCycles, opt) ==
    IF i >= numberOfCycles THEN <<>>
    ELSE LET prediction == predictFromCalendar(cycleStart, historicalCycles, opt)
             reduced == [prediction EXCEPT !.confidence = Max(40, prediction.confidence - i * 20)]
         IN  <<reduced>> \o
             multipleCyclesFromEvery28(i + 1, addDays(cycleStart, 28),
                                       historicalCycles, numberOfCycles, opt)

\* The loop of predictMultipleCycles from index i on
RECURSIVE multipleCyclesFrom(_, _, _, _, _)
multipleCyclesFrom(i, cycleStart, historicalCycles, numberOfCycles, opt) ==
    IF i >= numberOfCycles THEN <<>>
    ELSE LET prediction == predictFromCalendar(cycleStart, historicalCycles, opt)
             reduced == [prediction EXCEPT !.confidence = Max(40, prediction.confidence - i * 20)]
         IN  <<reduced>> \o
             multipleCyclesFrom(i + 1,
                                addDays(cycleStart, calculateAverageCycleLength(historicalCycles)),
                                historicalCycles, numberOfCycles, opt)

predictMultipleCycles(currentCycleStart, historicalCycles, numberOfCycles, opt) ==
    multipleCyclesFrom(0, currentCycleStart, historicalCycles, numberOfCycles, opt)

---------------------------------------------------------------------------
(* Symptom predictor (dates as day indices, as in the reconciler)          *)

CM_FERTILITY_SCORES ==
    ("dry" :> 0) @@ ("sticky" :> 1) @@ ("creamy" :> 2) @@ ("watery" :> 4)
        @@ ("egg-white" :> 5) @@ ("spotting" :> 1)

\* cmWeight and opkWeight in thousandths
SYMPTOM_DEFAULT_OPTIONS ==
    [ minCMScore |-> 3, daysBeforeOPK |-> 2, daysAfterOPK |-> 2,
      cmWeight |-> 600, opkWeight |-> 900 ]

\* addDays of the symptom predictor: the UTC midnight of dateStr moved with
\* setDate(getDate() + days) in the host zone, and read back in UTC
symptomsAddDays(zone, dateStr, days) ==
    formatDate(setDatePlus(zone, parseDate(dateStr), days))

\* obs.find((o) => o.type === type): the first such observation, or Null
findOfType(obs, type) ==
    LET found == SelectSeq(obs, LAMBDA o : o.type = type)
    IN  IF found = <<>> THEN Null ELSE found[1]

\* The DayFertilityData of one date of the Map (fertilityScore in
\* thousandths)
dayFertilityData(date, obs, opts) ==
    LET cmObs  == findOfType(obs, "cervical-mucus")
        opkObs == findOfType(obs, "opk")
        bbtObs == findOfType(obs, "bbt")
        cmScore == IF cmObs # Null THEN CM_FERTILITY_SCORES[cmObs.value] ELSE 0
        hasOPKPositive == opkObs # Null /\ opkObs.value = "positive"
        fertilityScore == (cmScore * opts.cmWeight) \div 5
                              + (IF hasOPKPositive THEN opts.opkWeight ELSE 0)
    IN  [ date           |-> date,
          cmScore        |-> cmScore,
          cmType         |-> IF cmObs # Null THEN cmObs.value ELSE "undefined",
          hasOPKPositive |-> hasOPKPositive,
          bbt            |-> IF bbtObs # Null THEN bbtObs.value ELSE Undefined,
          fertilityScore |-> Min(1000, fertilityScore) ]

analyzeDays(observations, opts) ==
    LET dates   == uniqueInOrder([i \in 1..Len(observations) |-> observations[i].date])
        dayData == [k \in 1..Len(dates) |->
                        dayFertilityData(dates[k],
                                         SelectSeq(observations, LAMBDA o : o.date = dates[k]),
                                         opts)]
    IN  StableSort(dayData, [k \in 1..Len(dates) |-> parseDate(dates[k])])

\* highCMDays.reduce((best, day) => (day.cmScore > best.cmScore ? day : best))
RECURSIVE peakCMOf(_, _)
peakCMOf(days, best) ==
    IF days = <<>> THEN best
    ELSE peakCMOf(Tail(days), IF Head(days).cmScore > best.cmScore THEN Head(days) ELSE best)

\* findFertileWindow of the symptom predictor; start = Undefined stands for
\* { start: null, end: null, peak: null }
symptomsFindFertileWindow(dayData, opts, zone) ==
    LET none == [start |-> Undefined, end |-> Undefined, peak |-> Undefined]
        opkPositiveDays == SelectSeq(dayData, LAMBDA d : d.hasOPKPositive)
        highCMDays      == SelectSeq(dayData, LAMBDA d : d.cmScore >= opts.minCMScore)
    IN  IF Len(dayData) = 0 THEN none
        ELSE IF Len(opkPositiveDays) > 0
        THEN LET opkDay == opkPositiveDays[1]
             IN  [ start |-> symptomsAddDays(zone, opkDay.date, -opts.daysBeforeOPK),
                   end   |-> symptomsAddDays(zone, opkDay.date, opts.daysAfterOPK),
                   peak  |-> symptomsAddDays(zone, opkDay.date, 1) ]
        ELSE IF Len(highCMDays) > 0
        THEN LET peakDay == peakCMOf(highCMDays, highCMDays[1])
             IN  [ start |-> highCMDays[1].date,
                   end   |-> symptomsAddDays(zone, peakDay.date, 2),
                   peak  |-> symptomsAddDays(zone, peakDay.date, 1) ]
        ELSE none

calculateConfidence(dayData, hasOPK, hasCM) ==
    LET base     == 40
        withOPK  == IF hasOPK THEN base + 35 ELSE base
        withCM   == IF hasCM THEN withOPK + 15 ELSE withOPK
        withData == IF Len(dayData) >= 10 THEN withCM + 10
                    ELSE IF Len(dayData) >= 5 THEN withCM + 5
                    ELSE withCM
        withBoth == IF hasOPK /\ hasCM THEN withData + 10 ELSE withData
    IN  Min(95, withBoth)

\* predictFromSymptoms(observations, cycleStartDate, options) on a host in
\* time zone `zone` (cycleStartDate is not read)
predictFromSymptoms(observations, opt, zone) ==
    LET opts == Spread(SYMPTOM_DEFAULT_OPTIONS, opt)
        relevantObs == SelectSeq(observations,
                                 LAMBDA o : o.type \in {"cervical-mucus", "opk", "bbt"})
        dayData == analyzeDays(relevantObs, opts)
        window  == symptomsFindFertileWindow(dayData, opts, zone)
        hasOPK  == \E k \in 1..Len(dayData) : dayData[k].hasOPKPositive
        hasCM   == \E k \in 1..Len(dayData) : dayData[k].cmScore >= opts.minCMScore
    IN  IF Len(relevantObs) = 0 THEN Null
        ELSE IF window.start = Undefined \/ window.end = Undefined THEN Null
        ELSE [ source        |-> "fertility-friend",
               fertileStart  |-> window.start,
               fertileEnd    |-> window.end,
               ovulationDate |-> window.peak,
               confidence    |-> calculateConfidence(dayData, hasOPK, hasCM) ]

---------------------------------------------------------------------------
(* BBT shift detector (temperatures in tenths of a degree)                 *)

\* The sorted lowest-five baselines, among the readings the model draws
\* from, for which the double baselineAvg + 0.2 is the double next above
\* the exact sum: 97.4 five times gives 97.60000000000001
ThresholdRoundedUp == { <<974, 974, 974, 974, 974>> }

\* value >= baselineAvg + 0.2 for the baseline slice(0, 5) `lowestFive`,
\* as IEEE doubles decide it
atOrAboveThreshold(value, lowestFive) ==
    LET sum == SumSeq(lowestFive)
    IN  IF 5 * value = sum + 10
        THEN lowestFive \notin ThresholdRoundedUp
        ELSE 5 * value > sum + 10

\* The loop of detectBBTShift from index i (counted from 1) on
RECURSIVE sustainedRiseFrom(_, _, _)
sustainedRiseFrom(i, sorted, lowestFive) ==
    IF i > Len(sorted) - 2 THEN Null
    ELSE IF /\ atOrAboveThreshold(sorted[i].value, lowestFive)
            /\ atOrAboveThreshold(sorted[i + 1].value, lowestFive)
            /\ atOrAboveThreshold(sorted[i + 2].value, lowestFive)
         THEN [shiftDate |-> sorted[i].date, confirmed |-> TRUE]
         ELSE sustainedRiseFrom(i + 1, sorted, lowestFive)

detectBBTShift(observations) ==
    IF Len(observations) < 6 THEN Null
    ELSE LET sorted   == StableSort(observations,
                                    [i \in 1..Len(observations) |->
                                         parseDate(observations[i].date)])
             firstSix == SubSeq(sorted, 1, 6)
             baseline == StableSort(firstSix, [i \in 1..6 |-> firstSix[i].value])
             lowestFive == [i \in 1..5 |-> baseline[i].value]
         IN  sustainedRiseFrom(7, sorted, lowestFive)

---------------------------------------------------------------------------
(* Fertility Friend CSV import (temperatures in tenths of a degree)        *)

\* const x = v; F(x): v is computed once and F reads the value
WithValue(v, F(_)) == CHOOSE r \in {F(x) : x \in {v}} : TRUE

Char(s, i) == SubSeq(s, i, i)

Digits == {"0", "1", "2", "3", "4", "5", "6", "7", "8", "9"}

\* \d{n} over the whole of s, for n in `lengths`
IsDigits(s, lengths) ==
    Len(s) \in lengths /\ \A i \in 1..Len(s) : Char(s, i) \in Digits

DigitValue(c) ==
    CASE c = "0" -> 0 [] c = "1" -> 1 [] c = "2" -> 2 [] c = "3" -> 3 [] c = "4" -> 4
      [] c = "5" -> 5 [] c = "6" -> 6 [] c = "7" -> 7 [] c = "8" -> 8 [] c = "9" -> 9

\* The number a string of digits spells
RECURSIVE NumberOf(_)
NumberOf(s) ==
    IF Len(s) = 0 THEN 0
    ELSE 10 * NumberOf(SubSeq(s, 1, Len(s) - 1)) + DigitValue(Char(s, Len(s)))

\* String.prototype.trim
RECURSIVE trim(_)
trim(s) ==
    IF Len(s) > 0 /\ Char(s, 1) \in {" ", "\t"} THEN trim(SubSeq(s, 2, Len(s)))
    ELSE IF Len(s) > 0 /\ Char(s, Len(s)) \in {" ", "\t"} THEN trim(SubSeq(s, 1, Len(s) - 1))
    ELSE s

\* String.prototype.toLowerCase, letter by letter
LowerOf(c) ==
    CASE c = "A" -> "a" [] c = "B" -> "b" [] c = "C" -> "c" [] c = "D" -> "d"
      [] c = "E" -> "e" [] c = "F" -> "f" [] c = "G" -> "g" [] c = "H" -> "h"
      [] c = "I" -> "i" [] c = "J" -> "j" [] c = "K" -> "k" [] c = "L" -> "l"
      [] c = "M" -> "m" [] c = "N" -> "n" [] c = "O" -> "o" [] c = "P" -> "p"
      [] c = "Q" -> "q" [] c = "R" -> "r" [] c = "S" -> "s" [] c = "T" -> "t"
      [] c = "U" -> "u" [] c = "V" -> "v" [] c = "W" -> "w" [] c = "X" -> "x"
      [] c = "Y" -> "y" [] c = "Z" -> "z" [] OTHER -> c

RECURSIVE toLowerCase(_)
toLowerCase(s) ==
    IF Len(s) = 0 THEN s
    ELSE LowerOf(Char(s, 1)) \o toLowerCase(SubSeq(s, 2, Len(s)))

\* s.padStart(2, '0')
padStart2(s) == IF Len(s) < 2 THEN "0" \o s ELSE s

\* /^\d{4}-\d{2}-\d{2}$/.test(cleaned)
matchesISO(cleaned) ==
    /\ Len(cleaned) = 10
    /\ IsDigits(SubSeq(cleaned, 1, 4), {4})
    /\ Char(cleaned, 5) = "-"
    /\ IsDigits(SubSeq(cleaned, 6, 7), {2})
    /\ Char(cleaned, 8) = "-"
    /\ IsDigits(SubSeq(cleaned, 9, 10), {2})

\* cleaned.match(/^(\d{1,2})\/(\d{1,2})\/(\d{4})$/): the three groups, or
\* <<>> for no match
matchSlashes(cleaned) ==
    LET slashes == {i \in 1..Len(cleaned) : Char(cleaned, i) = "/"}
    IN  IF Cardinality(slashes) # 2 THEN <<>>
        ELSE LET i1 == CHOOSE i \in slashes : \A j \in slashes : i <= j
                 i2 == CHOOSE i \in slashes : \A j \in slashes : j <= i
                 g1 == SubSeq(cleaned, 1, i1 - 1)
                 g2 == SubSeq(cleaned, i1 + 1, i2 - 1)
                 g3 == SubSeq(cleaned, i2 + 1, Len(cleaned))
             IN  IF IsDigits(g1, {1, 2}) /\ IsDigits(g2, {1, 2}) /\ IsDigits(g3, {4})
                 THEN <<g1, g2, g3>>
                 ELSE <<>>

\* The strings of the model that new Date(cleaned) reads in its own
\* formats, with the local date and time they denote; every other string of
\* the model that reaches new Date gives an invalid date
DATE_CONSTRUCTOR_FORMATS ==
    ("Jan 15, 2024" :> [date |-> ISODate(2024, 1, 15), hour |-> 0])

\* new Date(cleaned).getTime() in hours since the epoch on a host in `zone`,
\* or Undefined for NaN
dateConstructor(cleaned, zone) ==
    IF cleaned \in DOMAIN DATE_CONSTRUCTOR_FORMATS
    THEN LET local == DATE_CONSTRUCTOR_FORMATS[cleaned]
         IN  LocalToUTC(zone, 24 * DaysFromCivil(local.date) + local.hour)
    ELSE Undefined

\* parsed.toISOString().split('T')[0]
toISODateString(hours) ==
    LET civil == CivilFromDays(hours \div 24)
        year  == ToString(civil.y)
    IN  SubSeq("0000", 1, 4 - Len(year)) \o year
            \o "-" \o padStart2(ToString(civil.m))
            \o "-" \o padStart2(ToString(civil.d))

\* parseDate of the importer, with cleaned = dateStr.trim():
\* [ok |-> TRUE, date] or [ok |-> FALSE, error]
parseDateCleaned(dateStr, cleaned, rowNum, zone) ==
    LET usMatch == matchSlashes(cleaned)
        euMatch == matchSlashes(cleaned)
        parsed  == dateConstructor(cleaned, zone)
    IN  IF dateStr = "" \/ cleaned = ""
        THEN [ ok |-> FALSE,
               error |-> [ row |-> rowNum, field |-> "Date",
                           message |-> "Date is required", value |-> dateStr ] ]
        ELSE IF matchesISO(cleaned)
        THEN [ok |-> TRUE, date |-> cleaned]
        ELSE IF usMatch # <<>>
        THEN [ ok |-> TRUE,
               date |-> usMatch[3] \o "-" \o padStart2(usMatch[1])
                                   \o "-" \o padStart2(usMatch[2]) ]
        ELSE IF euMatch # <<>>
        THEN [ ok |-> TRUE,
               date |-> euMatch[3] \o "-" \o padStart2(euMatch[2])
                                   \o "-" \o padStart2(euMatch[1]) ]
        ELSE IF parsed # Undefined
        THEN [ok |-> TRUE, date |-> toISODateString(parsed)]
        ELSE [ ok |-> FALSE,
               error |-> [ row |-> rowNum, field |-> "Date",
                           message |-> "Invalid date format: " \o cleaned,
                           value |-> cleaned ] ]

importParseDate(dateStr, rowNum, zone) ==
    WithValue(trim(dateStr), LAMBDA cleaned : parseDateCleaned(dateStr, cleaned, rowNum, zone))

\* tempStr.trim().replace(/[°FfCc]/g, '')
RECURSIVE stripUnits(_)
stripUnits(s) ==
    IF Len(s) = 0 THEN s
    ELSE IF Char(s, 1) \in {"°", "F", "f", "C", "c"} THEN stripUnits(SubSeq(s, 2, Len(s)))
    ELSE Char(s, 1) \o stripUnits(SubSeq(s, 2, Len(s)))

\* The length of the longest prefix of s made of digits
RECURSIVE digitPrefix(_)
digitPrefix(s) ==
    IF Len(s) > 0 /\ Char(s, 1) \in Digits THEN 1 + digitPrefix(SubSeq(s, 2, Len(s)))
    ELSE 0

\* parseFloat(cleaned) in tenths, for digits with at most one decimal, or
\* Undefined for NaN
parseFloat(cleaned) ==
    LET n == digitPrefix(cleaned)
        whole == NumberOf(SubSeq(cleaned, 1, n))
    IN  IF n = 0 THEN Undefined
        ELSE IF /\ Len(cleaned) >= n + 2
                /\ Char(cleaned, n + 1) = "."
                /\ Char(cleaned, n + 2) \in Digits
        THEN 10 * whole + DigitValue(Char(cleaned, n + 2))
        ELSE 10 * whole

\* `${temp}` for a temperature in tenths
formatTemp(temp) ==
    IF temp % 10 = 0 THEN ToString(temp \div 10)
    ELSE ToString(temp \div 10) \o "." \o ToString(temp % 10)

\* parseTemp, with temp = parseFloat(cleaned): temp = Undefined for
\* undefined, warnings a list of 0 or 1
parseTempValue(tempStr, temp, rowNum) ==
        IF tempStr = "" \/ trim(tempStr) = ""
        THEN [temp |-> Undefined, warnings |-> <<>>]
        ELSE IF temp = Undefined
        THEN [ temp |-> Undefined,
               warnings |-> << [ row |-> rowNum, field |-> "Temp",
                                 message |-> "Could not parse temperature: " \o tempStr,
                                 value |-> tempStr ] >> ]
        ELSE IF temp < 950 \/ temp > 1010
        THEN [ temp |-> temp,
               warnings |-> << [ row |-> rowNum, field |-> "Temp",
                                 message |-> "Temperature " \o formatTemp(temp)
                                     \o "°F is outside typical BBT range (96-100°F)",
                                 value |-> tempStr ] >> ]
        ELSE [temp |-> temp, warnings |-> <<>>]

parseTemp(tempStr, rowNum) ==
    WithValue(parseFloat(stripUnits(trim(tempStr))),
              LAMBDA temp : parseTempValue(tempStr, temp, rowNum))

\* A row of parsed.data: its keys in header order and its cells
RowValue(row, key) ==
    row.cells[CHOOSE i \in 1..Len(row.keys) : row.keys[i] = key]

\* findColumn(row, possibleNames); '' stands for undefined, which every
\* caller reads as an empty cell (dateStr || '', !tempStr, !cmStr, !opkStr)
RECURSIVE findColumn(_, _)
findColumn(row, possibleNames) ==
    IF possibleNames = <<>> THEN ""
    ELSE LET name == Head(possibleNames)
             sameLower == SelectSeq(row.keys,
                                    LAMBDA key : toLowerCase(key) = toLowerCase(name))
         IN  IF \E i \in 1..Len(row.keys) : row.keys[i] = name
             THEN RowValue(row, name)
             ELSE IF sameLower # <<>>
             THEN RowValue(row, sameLower[1])
             ELSE findColumn(row, Tail(possibleNames))

\* Fertility Friend cervical mucus and OPK synonyms
CM_MAP ==
    ("dry" :> "dry") @@ ("d" :> "dry") @@ ("none" :> "dry")
        @@ ("sticky" :> "sticky") @@ ("s" :> "sticky") @@ ("tacky" :> "sticky")
        @@ ("creamy" :> "creamy") @@ ("c" :> "creamy") @@ ("lotiony" :> "creamy")
        @@ ("watery" :> "watery") @@ ("w" :> "watery")
        @@ ("eggwhite" :> "eggwhite") @@ ("egg white" :> "eggwhite")
        @@ ("ew" :> "eggwhite") @@ ("e" :> "eggwhite") @@ ("stretchy" :> "eggwhite")

OPK_MAP ==
    ("negative" :> "negative") @@ ("neg" :> "negative") @@ ("n" :> "negative")
        @@ ("-" :> "negative")
        @@ ("positive" :> "positive") @@ ("pos" :> "positive") @@ ("p" :> "positive")
        @@ ("+" :> "positive")
        @@ ("peak" :> "peak") @@ ("high" :> "positive") @@ ("low" :> "negative")

\* CM_MAP[normalized] || 'unknown' for the cell cmStr; "undefined" stands
\* for undefined
lookupOrUnknown(map, str) ==
    WithValue(toLowerCase(trim(str)),
              LAMBDA normalized :
                  IF normalized = "" THEN "undefined"
                  ELSE IF normalized \in DOMAIN map THEN map[normalized]
                  ELSE "unknown")

parseCervicalMucus(cmStr) == lookupOrUnknown(CM_MAP, cmStr)

parseOPK(opkStr) == lookupOrUnknown(OPK_MAP, opkStr)

\* { date, ...(temp !== undefined && { temp }), ...(cervicalMucus &&
\* { cervicalMucus }), ...(opk && { opk }) }
rawObservation(date, temp, cervicalMucus, opk) ==
    LET fields == {"date"} \cup (IF temp # Undefined THEN {"temp"} ELSE {})
                      \cup (IF cervicalMucus # "undefined" THEN {"cervicalMucus"} ELSE {})
                      \cup (IF opk # "undefined" THEN {"opk"} ELSE {})
    IN  [f \in fields |->
            CASE f = "date" -> date
              [] f = "temp" -> temp
              [] f = "cervicalMucus" -> cervicalMucus
              [] f = "opk" -> opk]

\* parseRow for a file with date, temperature, cervical mucus and OPK
\* columns, from the results of the four cell parsers: observation is a
\* list of 0 or 1 raw observations
rowResult(parsed, temp, cervicalMucus, opk) ==
        IF ~parsed.ok
        THEN [observation |-> <<>>, errors |-> <<parsed.error>>, warnings |-> <<>>]
        ELSE [ observation |-> <<rawObservation(parsed.date, temp.temp, cervicalMucus, opk)>>,
               errors   |-> <<>>,
               warnings |-> temp.warnings ]

parseRow(row, rowNum, zone) ==
    LET dateStr == findColumn(row, <<"Date", "date", "DATE">>)
        tempStr == findColumn(row, <<"Temp", "Temperature", "BBT", "temp", "temperature">>)
        cmStr   == findColumn(row, <<"Cervical Fluid", "CF", "CM", "Cervical Mucus",
                                     "cervical fluid", "Fluid">>)
        opkStr  == findColumn(row, <<"OPK", "opk", "LH Test", "Ovulation Test">>)
    IN  WithValue(<<importParseDate(dateStr, rowNum, zone), parseTemp(tempStr, rowNum),
                    parseCervicalMucus(cmStr), parseOPK(opkStr)>>,
                  LAMBDA r : rowResult(r[1], r[2], r[3], r[4]))

\* A comparison by day, then month, then year
dateKeyDayFirst(date) ==
    NumberOf(SubSeq(date, 9, 10) \o SubSeq(date, 6, 7) \o SubSeq(date, 1, 4))

\* a.date.localeCompare(b.date) on dates of the form dddd-dd-dd, the only
\* form parseDate returns: the order of the numbers their digits spell
dateKey(date) ==
    NumberOf(SubSeq(date, 1, 4) \o SubSeq(date, 6, 7) \o SubSeq(date, 9, 10))

\* The duplicate-date pass over the sorted observations
duplicateWarnings(observations) ==
    LET repeated == SelectSeq([i \in 1..Len(observations) |-> i],
                              LAMBDA i : \E j \in 1..(i - 1) :
                                             observations[j].date = observations[i].date)
    IN  [k \in 1..Len(repeated) |->
            [ row |-> 0, field |-> "Date",
              message |-> "Duplicate date found: " \o observations[repeated[k]].date,
              value |-> observations[repeated[k]].date ]]

RECURSIVE Flatten(_)
Flatten(lists) == IF lists = <<>> THEN <<>> ELSE Head(lists) \o Flatten(Tail(lists))

\* The row loop of parseFFCSV from row i on: the results of parseRow
RECURSIVE rowResults(_, _, _)
rowResults(data, i, zone) ==
    IF i > Len(data) THEN <<>>
    ELSE <<parseRow(data[i], i + 1, zone)>> \o rowResults(data, i + 1, zone)

\* observations.sort((a, b) => a.date.localeCompare(b.date))
sortByDate(unsorted) ==
    WithValue([i \in 1..Len(unsorted) |-> dateKey(unsorted[i].date)] \o <<>>,
              LAMBDA keys : StableSort(unsorted, keys))

\* The ImportResult from the errors of Papa.parse, the results of the rows
\* and the sorted observations
importResult(csvErrors, results, observations) ==
    LET errors == csvErrors \o Flatten([i \in 1..Len(results) |-> results[i].errors])
    IN  [ success      |-> Len(errors) = 0,
          observations |-> observations,
          errors       |-> errors,
          warnings     |-> Flatten([i \in 1..Len(results) |-> results[i].warnings])
                               \o duplicateWarnings(observations) ]

\* parseFFCSV from the result `parsed` of Papa.parse on a host in `zone`
parseFFCSV(parsed, zone) ==
    LET csvErrors == [k \in 1..Len(parsed.errors) |->
                         [ row |-> IF parsed.errors[k].row = Undefined THEN 0
                                   ELSE parsed.errors[k].row,
                           field |-> "CSV",
                           message |-> parsed.errors[k].message ]]
    IN  WithValue(rowResults(parsed.data, 1, zone),
            LAMBDA results :
                WithValue(sortByDate(Flatten([i \in 1..Len(results) |->
                                                  results[i].observation])) \o <<>>,
                          LAMBDA observations :
                              importResult(csvErrors, results, observations)))

\* mapFFCervicalMucus and mapFFOPKResult
mapFFCervicalMucus ==
    ("dry" :> "dry") @@ ("sticky" :> "sticky") @@ ("creamy" :> "creamy")
        @@ ("watery" :> "watery") @@ ("eggwhite" :> "egg-white") @@ ("unknown" :> "dry")

mapFFOPKResult ==
    ("negative" :> "negative") @@ ("positive" :> "positive") @@ ("peak" :> "positive")
        @@ ("unknown" :> "invalid")

\* The observations convertToObservations pushes for one raw observation
\* (ids, notes and timestamps left out)
convertedFrom(raw) ==
    (IF "temp" \in DOMAIN raw
     THEN <<[date |-> raw.date, type |-> "bbt", value |-> raw.temp]>> ELSE <<>>)
    \o (IF "cervicalMucus" \in DOMAIN raw /\ raw.cervicalMucus # "unknown"
        THEN <<[date |-> raw.date, type |-> "cervical-mucus",
                value |-> mapFFCervicalMucus[raw.cervicalMucus]]>> ELSE <<>>)
    \o (IF "opk" \in DOMAIN raw /\ raw.opk # "unknown"
        THEN <<[date |-> raw.date, type |-> "opk",
                value |-> mapFFOPKResult[raw.opk]]>> ELSE <<>>)

RECURSIVE convertToObservations(_)
convertToObservations(rawObservations) ==
    IF rawObservations = <<>> THEN <<>>
    ELSE convertedFrom(Head(rawObservations)) \o convertToObservations(Tail(rawObservations))

\* String.prototype.includes
includes(s, part) ==
    \E i \in 1..(Len(s) - Len(part) + 1) : SubSeq(s, i, i + Len(part) - 1) = part

\* validateCSVStructure from the result `parsed` of Papa.parse (parsed.fields
\* is parsed.meta.fields)
validateCSVStructure(parsed) ==
    LET headers == parsed.fields
        headersLower == [k \in 1..Len(headers) |-> toLowerCase(headers[k])] \o <<>>
        requiredColumns == <<"date">>
        missingColumns ==
            SelectSeq(requiredColumns,
                      LAMBDA required :
                          ~\E k \in 1..Len(headersLower) : includes(headersLower[k], required))
    IN  [ valid          |-> Len(missingColumns) = 0,
          missingColumns |-> missingColumns,
          foundColumns   |-> headers ]

---------------------------------------------------------------------------
(* The inputs the model draws from                                         *)

\* Bounds of the model
MaxPreds == 3          \* longest prediction list
FirstDay == 4          \* earliest fertileStart, as a day index
TransitionDay == 7     \* local civil date of the host zone's clock change

\* Prediction as reconcile reads it (id, notes and timestamps are not read)
Pred(source, start, end, confidence, ovulation) ==
    [ source |-> source, fertileStart |-> start, fertileEnd |-> end,
      confidence |-> confidence, ovulationDate |-> ovulation ]

\* The predictions lists are built from: two equally weighted sources that
\* agree, one of them also 5 days later, a far-away manual entry, a
\* zero-confidence and a low-confidence entry, a short window without an
\* ovulation date, and a source tag that has no weight
Catalogue ==
    { Pred("flo",  FirstDay, FirstDay + 5, 70, FirstDay + 3),
      Pred("clue", FirstDay, FirstDay + 5, 70, Undefined),
      Pred("clue", FirstDay + 5, FirstDay + 10, 70, FirstDay + 9),
      Pred("manual", FirstDay + 12, FirstDay + 17, 100, Undefined),
      Pred("flo",  FirstDay, FirstDay + 5, 0, Undefined),
      Pred("ovia", FirstDay + 1, FirstDay + 6, 20, FirstDay + 2),
      Pred("natural-cycles", FirstDay + 2, FirstDay + 4, 90, Undefined),
      Pred("my-app", FirstDay + 3, FirstDay + 3, 100, FirstDay + 3) }

\* Sequences over S of length 0..n
RECURSIVE SeqsUpTo(_, _)
SeqsUpTo(S, n) ==
    IF n = 0 THEN {<<>>}
    ELSE LET shorter == SeqsUpTo(S, n - 1)
         IN  shorter \cup {Append(q, x) : q \in {r \in shorter : Len(r) = n - 1}, x \in S}

\* A weight table that distrusts every known source
ZeroWeights == [src \in DOMAIN DEFAULT_WEIGHTS |-> 0]

\* ReconcilerOptions values: partial records, as callers pass them
OptionSet ==
    { <<>>,
      [minConfidenceThreshold |-> 99],
      [weights |-> ZeroWeights],
      [weights |-> ("flo" :> 100), disagreementPenalty |-> 0] }
    \cup { [minSources |-> k] : k \in 2..MaxPreds }

\* Host zones: UTC, a zone west of Greenwich whose clocks go forward and a
\* zone east of Greenwich whose clocks go back on TransitionDay
UTC == [std |-> 0, dst |-> 0, at |-> 0]

Zones ==
    { UTC,
      [std |-> -5, dst |-> -4, at |-> 24 * TransitionDay + 7],
      [std |-> 2,  dst |-> 1,  at |-> 24 * TransitionDay + 1] }

Pending == [tag |-> "pending"]

\* No predictor or importer call is made
NoCall == [fn |-> "none"]

---------------------------------------------------------------------------
(* The state machine: a caller hands a list and options to reconcile       *)

Init ==
    /\ predictions \in SeqsUpTo(Catalogue, MaxPreds)
    /\ options \in OptionSet
    /\ hostZone \in Zones
    /\ result = Pending
    /\ call = NoCall
    /\ outcome = Pending

\* const result = reconcile(predictions, options)
Reconcile ==
    /\ result = Pending
    /\ result' = reconcile(predictions, options, hostZone)
    /\ UNCHANGED <<predictions, options, hostZone, call, outcome>>

Next == Reconcile

Spec == Init /\ [][Next]_vars

---------------------------------------------------------------------------
(* The calendar predictor called on its own                                *)

MaxCycles == 6         \* longest cycle history
MaxProjected == 4      \* largest numberOfCycles

\* Cycle as the predictor reads it (only its length is read)
Cycle(length) == [length |-> length]

\* Cycle lengths: short, typical and long
CycleLengths == {21, 28, 35}

\* Cycle starts: the documented example, and a start before a leap day
CycleStarts == {ISODate(2025, 2, 1), ISODate(2024, 2, 20)}

\* CalendarPredictorOptions values: partial records, as callers pass them
CalendarOptionSet ==
    { <<>>,
      [lutealPhaseLength |-> 12],
      [daysBeforeOvulation |-> 3, daysAfterOvulation |-> 2, regularityBonus |-> 5],
      [regularityBonus |-> 40] }

Histories == SeqsUpTo({Cycle(l) : l \in CycleLengths}, MaxCycles)

InitCalendar ==
    /\ predictions = <<>>
    /\ options = <<>>
    /\ hostZone = UTC
    /\ result = Pending
    /\ call \in [fn : {"predictFromCalendar"}, currentCycleStart : CycleStarts,
                 historicalCycles : Histories, opt : CalendarOptionSet]
           \cup [fn : {"predictMultipleCycles"}, currentCycleStart : CycleStarts,
                 historicalCycles : Histories, numberOfCycles : 0..MaxProjected,
                 opt : CalendarOptionSet]
    /\ outcome = Pending

\* const prediction = predictFromCalendar(currentCycleStart, historicalCycles, options)
PredictFromCalendar ==
    /\ call.fn = "predictFromCalendar"
    /\ outcome = Pending
    /\ outcome' = predictFromCalendar(call.currentCycleStart, call.historicalCycles, call.opt)
    /\ UNCHANGED <<predictions, options, hostZone, result, call>>

\* const predictions = predictMultipleCycles(currentCycleStart, historicalCycles, n, options)
PredictMultipleCycles ==
    /\ call.fn = "predictMultipleCycles"
    /\ outcome = Pending
    /\ outcome' = [predictions |-> predictMultipleCycles(call.currentCycleStart,
                                                         call.historicalCycles,
                                                         call.numberOfCycles, call.opt)]
    /\ UNCHANGED <<predictions, options, hostZone, result, call>>

NextCalendar == PredictFromCalendar \/ PredictMultipleCycles

SpecCalendar == InitCalendar /\ [][NextCalendar]_vars

---------------------------------------------------------------------------
(* The symptom predictor and the BBT shift detector called on their own    *)

MaxObs == 3            \* longest list of signal observations
MaxReadings == 9       \* longest list of BBT readings

Observation(date, type, value) == [date |-> date, type |-> type, value |-> value]

\* Signal observations around TransitionDay: OPK results (two of them on
\* the same date), cervical mucus above and below the threshold, a
\* temperature and a symptom
SignalCatalogue ==
    { Observation(TransitionDay - 1, "opk", "positive"),
      Observation(TransitionDay - 1, "opk", "negative"),
      Observation(TransitionDay + 2, "opk", "positive"),
      Observation(TransitionDay + 1, "cervical-mucus", "egg-white"),
      Observation(TransitionDay - 2, "cervical-mucus", "watery"),
      Observation(TransitionDay,     "cervical-mucus", "watery"),
      Observation(TransitionDay - 3, "cervical-mucus", "creamy"),
      Observation(TransitionDay - 1, "bbt", 975),
      Observation(TransitionDay - 2, "symptom", "cramps") }

\* k daily temperatures after the signals, one per date
DailyTemperatures(k) == [i \in 1..k |-> Observation(TransitionDay + 3 + i, "bbt", 975)]

\* Observation lists: up to MaxObs signals followed by 0, 3 or 8 daily
\* temperatures, so that lists of 5 and of 10 observations and dates occur
ObservationLists ==
    { signals \o DailyTemperatures(k) :
          signals \in SeqsUpTo(SignalCatalogue, MaxObs), k \in {0, 3, 8} }

\* Temperatures: a baseline value, one and two tenths above it
BBTValues == {974, 975, 976}

\* BBT readings on consecutive dates, handed over in date order or in
\* reverse date order
RECURSIVE ValueSeqsUpTo(_)
ValueSeqsUpTo(n) ==
    IF n = 0 THEN {<<>>}
    ELSE LET shorter == ValueSeqsUpTo(n - 1)
         IN  shorter \cup {Append(q, v) : q \in {r \in shorter : Len(r) = n - 1},
                                          v \in BBTValues}

ReadingLists ==
    { [i \in 1..Len(vs) |-> Observation(IF forward THEN FirstDay + i
                                        ELSE FirstDay + Len(vs) + 1 - i, "bbt", vs[i])] :
          vs \in ValueSeqsUpTo(MaxReadings), forward \in BOOLEAN }

InitSymptoms ==
    /\ predictions = <<>>
    /\ options = <<>>
    /\ result = Pending
    /\ outcome = Pending
    /\ \/ /\ hostZone \in Zones
          /\ call \in [fn : {"predictFromSymptoms"}, observations : ObservationLists]
       \/ /\ hostZone = UTC
          /\ call \in [fn : {"detectBBTShift"}, observations : ReadingLists]

\* const prediction = predictFromSymptoms(observations)
PredictFromSymptoms ==
    /\ call.fn = "predictFromSymptoms"
    /\ outcome = Pending
    /\ outcome' = predictFromSymptoms(call.observations, <<>>, hostZone)
    /\ UNCHANGED <<predictions, options, hostZone, result, call>>

\* const shift = detectBBTShift(observations)
DetectBBTShift ==
    /\ call.fn = "detectBBTShift"
    /\ outcome = Pending
    /\ outcome' = detectBBTShift(call.observations)
    /\ UNCHANGED <<predictions, options, hostZone, result, call>>

NextSymptoms == PredictFromSymptoms \/ DetectBBTShift

SpecSymptoms == InitSymptoms /\ [][NextSymptoms]_vars

---------------------------------------------------------------------------
(* The importer called on its own                                          *)

MaxRows == 3           \* most data rows of a CSV

\* Date cells: ISO dates (one padded with blanks, one that is no calendar
\* date), slash dates that read as month/day and one that reads as
\* day/month only, an empty and a blank cell, a cell no format reads and a
\* cell only new Date reads
DateCells ==
    { "2024-01-15", " 2024-02-01 ", "2024-13-45",
      "03/04/2024", "3/4/2024", "15/01/2024",
      "", "  ", "not-a-date", "Jan 15, 2024" }

\* The temperature cell of the i-th data row
TempCells == <<"97.5", "", "105F", "n/a">>

TempCellOfRow(i) == TempCells[((i - 1) % Len(TempCells)) + 1]

\* Headers of the date column: "Day" leaves the file without one, "Start
\* Date" contains the word without being it
DateHeaders == {"Date", "DATE", "dAtE", "Day", "Start Date"}

\* parsed.errors of Papa.parse: none, one without a row, one with a row
PapaErrors ==
    { <<>>,
      << [row |-> Undefined,
          message |-> "Unable to auto-detect delimiting character; defaulted to ','"] >>,
      << [row |-> 0, message |-> "Quoted field unterminated"] >> }

RECURSIVE CellSeqsUpTo(_)
CellSeqsUpTo(n) ==
    IF n = 0 THEN {<<>>}
    ELSE LET shorter == CellSeqsUpTo(n - 1)
         IN  shorter \cup {Append(q, c) : q \in {r \in shorter : Len(r) = n - 1},
                                          c \in DateCells}

\* parsed.data for a header and a list of date cells
DataRows(header, cells) ==
    [i \in 1..Len(cells) |->
        [keys |-> <<header, "Temp">>, cells |-> <<cells[i], TempCellOfRow(i)>>]]

\* The result of Papa.parse for a file with a date and a temperature column
Parsed(header, cells, errors) ==
    [fields |-> <<header, "Temp">>, data |-> DataRows(header, cells), errors |-> errors]

MaxSignRows == 2       \* most data rows of a CSV with sign columns

\* Cervical mucus cells: none, the values of the observation vocabulary, a
\* synonym and a value no table knows
CMCells == {"", "dry", "sticky", "creamy", "watery", "egg-white", "spotting", "EW", "xyz"}

\* OPK cells: none, the values of the observation vocabulary, a synonym and
\* a value no table knows
OPKCells == {"", "negative", "positive", "Peak", "maybe"}

\* The date cell of the i-th data row of a file with sign columns
SignDates == <<"2024-01-15", "2024-01-16", "2024-01-17">>

RECURSIVE SignSeqsUpTo(_)
SignSeqsUpTo(n) ==
    IF n = 0 THEN {<<>>}
    ELSE LET shorter == SignSeqsUpTo(n - 1)
         IN  shorter \cup {Append(q, <<cm, opk>>) :
                               q \in {r \in shorter : Len(r) = n - 1},
                               cm \in CMCells, opk \in OPKCells}

\* The result of Papa.parse for a file with date, temperature, cervical
\* mucus and OPK columns
ParsedSigns(signs) ==
    [ fields |-> <<"Date", "Temp", "CM", "OPK">>,
      data   |-> [i \in 1..Len(signs) |->
                     [ keys  |-> <<"Date", "Temp", "CM", "OPK">>,
                       cells |-> << SignDates[((i - 1) % Len(SignDates)) + 1],
                                    TempCellOfRow(i), signs[i][1], signs[i][2] >> ]],
      errors |-> <<>> ]

\* The files of the model
ParsedFiles ==
    {Parsed(header, cells, <<>>) : header \in DateHeaders, cells \in CellSeqsUpTo(MaxRows)}
        \cup {Parsed("Date", cells, errors) :
                  cells \in CellSeqsUpTo(MaxRows), errors \in PapaErrors}
        \cup {ParsedSigns(signs) : signs \in SignSeqsUpTo(MaxSignRows)}

InitImport ==
    /\ predictions = <<>>
    /\ options = <<>>
    /\ result = Pending
    /\ outcome = Pending
    /\ \/ /\ hostZone \in Zones
          /\ \E cells \in CellSeqsUpTo(MaxRows) :
                call = [fn |-> "parseFFCSV", parsed |-> Parsed("Date", cells, <<>>)]
       \/ /\ hostZone = UTC
          /\ call \in [fn : {"parseFFCSV", "validateCSVStructure"}, parsed : ParsedFiles]

\* const structure = validateCSVStructure(body.csv)
ValidateCSVStructure ==
    /\ call.fn = "validateCSVStructure"
    /\ outcome = Pending
    /\ outcome' = validateCSVStructure(call.parsed)
    /\ UNCHANGED <<predictions, options, hostZone, result, call>>

\* const result = parseFFCSV(csvContent)
ParseFFCSV ==
    /\ call.fn = "parseFFCSV"
    /\ outcome = Pending
    /\ outcome' = parseFFCSV(call.parsed, hostZone)
    /\ UNCHANGED <<predictions, options, hostZone, result, call>>

\* const observations = convertToObservations(result.observations)
ConvertToObservations ==
    /\ call.fn = "parseFFCSV"
    /\ outcome # Pending
    /\ result = Pending
    /\ result' = [observations |-> convertToObservations(outcome.observations)]
    /\ UNCHANGED <<predictions, options, hostZone, call, outcome>>

NextImport == ValidateCSVStructure \/ ParseFFCSV \/ ConvertToObservations

SpecImport == InitImport /\ [][NextImport]_vars

---------------------------------------------------------------------------
(* The date helpers called on their own                                    *)

MaxShift == 3          \* largest number of days added or taken away
LastDay == 12          \* latest date, as a day index

DateArguments == [d : FirstDay..LastDay, n : (-MaxShift)..MaxShift, m : (-MaxShift)..MaxShift]

InitDates ==
    /\ predictions = <<>>
    /\ options = <<>>
    /\ result = Pending
    /\ outcome = Pending
    /\ hostZone \in Zones
    /\ \E fn \in {"calendar.addDays", "symptoms.addDays", "getDateRange"}, args \in DateArguments :
          call = [fn |-> fn, d |-> args.d, n |-> args.n, m |-> args.m]

\* addDays of the calendar predictor on the date with day index d
calendarAddDays(d, days) == DaysFromCivil(addDays(CivilFromDays(d), days))

\* addDays(d, n), addDays(addDays(d, n), -n), addDays(d, n + m),
\* addDays(addDays(d, n), m) and daysBetween(addDays(d, n), d) for an
\* addDays
AddDaysResults(AddDays(_, _), d, n, m) ==
    [ there   |-> AddDays(d, n),
      back    |-> AddDays(AddDays(d, n), -n),
      sum     |-> AddDays(d, n + m),
      steps   |-> AddDays(AddDays(d, n), m),
      between |-> daysBetween(parseDate(AddDays(d, n)), parseDate(d)),
      same    |-> daysBetween(parseDate(d), parseDate(d)) ]

CalendarAddDays ==
    /\ call.fn = "calendar.addDays"
    /\ outcome = Pending
    /\ outcome' = AddDaysResults(calendarAddDays, call.d, call.n, call.m)
    /\ UNCHANGED <<predictions, options, hostZone, result, call>>

SymptomsAddDays ==
    /\ call.fn = "symptoms.addDays"
    /\ outcome = Pending
    /\ outcome' = AddDaysResults(LAMBDA d, days : symptomsAddDays(hostZone, d, days),
                                 call.d, call.n, call.m)
    /\ UNCHANGED <<predictions, options, hostZone, result, call>>

\* getDateRange(parseDate(d), parseDate(d + |n|)).map(formatDate)
GetDateRange ==
    /\ call.fn = "getDateRange"
    /\ outcome = Pending
    /\ outcome' =
           [ range |-> MapSeq(getDateRange(hostZone, parseDate(call.d),
                                           parseDate(call.d + Abs(call.n))),
                              formatDate),
             between |-> daysBetween(parseDate(call.d + Abs(call.n)), parseDate(call.d)),
             same    |-> daysBetween(parseDate(call.d), parseDate(call.d)) ]
    /\ UNCHANGED <<predictions, options, hostZone, result, call>>

NextDates == CalendarAddDays \/ SymptomsAddDays \/ GetDateRange

SpecDates == InitDates /\ [][NextDates]_vars

---------------------------------------------------------------------------
(* The app-wide store: ResilientFertileDB over IndexedDB and localStorage  *)

MaxIds == 2            \* number of record ids

Ids == 1..MaxIds

\* The contents a record of one id can have
Contents == {"a", "b"}

\* get of an id that has no record
NoRecord == "undefined"

EmptyStore == [id \in Ids |-> NoRecord]

\* FertileDB.add, get, update, delete and clearAll on the cycles store:
\* ok = FALSE stands for a rejected promise.  A failing IndexedDB rejects
\* every operation, and store.add rejects for a key that is present.
primaryAction(records, failing, op) ==
    IF failing THEN [ok |-> FALSE, records |-> records, value |-> NoRecord]
    ELSE CASE op.type = "addCycle" ->
                IF records[op.id] # NoRecord
                THEN [ok |-> FALSE, records |-> records, value |-> NoRecord]
                ELSE [ok |-> TRUE, records |-> [records EXCEPT ![op.id] = op.item],
                      value |-> op.item]
           [] op.type = "updateCycle" ->
                [ok |-> TRUE, records |-> [records EXCEPT ![op.id] = op.item],
                 value |-> op.item]
           [] op.type = "getCycle" ->
                [ok |-> TRUE, records |-> records, value |-> records[op.id]]
           [] op.type = "deleteCycle" ->
                [ok |-> TRUE, records |-> [records EXCEPT ![op.id] = NoRecord],
                 value |-> NoRecord]
           [] OTHER ->  \* clearAll
                [ok |-> TRUE, records |-> EmptyStore, value |-> NoRecord]

\* LocalStorageFertileDB: addCycle and updateCycle are upsertById
fallbackAction(records, op) ==
    CASE op.type \in {"addCycle", "updateCycle"} ->
            [records |-> [records EXCEPT ![op.id] = op.item], value |-> op.item]
      [] op.type = "getCycle" ->
            [records |-> records, value |-> records[op.id]]
      [] op.type = "deleteCycle" ->
            [records |-> [records EXCEPT ![op.id] = NoRecord], value |-> NoRecord]
      [] OTHER ->  \* clearAll
            [records |-> EmptyStore, value |-> NoRecord]

\* ResilientFertileDB.run: the store after the operation, and the value
\* the operation resolves to
run(db, op) ==
    LET onFallback == fallbackAction(db.fallback, op)
        onPrimary  == primaryAction(db.primary, db.primaryFailing, op)
    IN  IF db.useFallback
        THEN [db |-> [db EXCEPT !.fallback = onFallback.records],
              value |-> onFallback.value]
        ELSE IF onPrimary.ok
        THEN [db |-> [db EXCEPT !.primary = onPrimary.records],
              value |-> onPrimary.value]
        ELSE [db |-> [db EXCEPT !.useFallback = TRUE, !.fallback = onFallback.records],
              value |-> onFallback.value]

\* getDB() in an environment with or without IndexedDB: both stores are
\* empty, nothing was saved yet.  call holds what the session has done: the
\* last operation and, per id, the content last saved and not deleted.
InitStore ==
    /\ predictions = <<>>
    /\ options = <<>>
    /\ hostZone = UTC
    /\ result = Pending
    /\ \E available \in BOOLEAN :
          /\ call = [fn |-> "getDB", indexedDB |-> available,
                     last |-> [type |-> "none"], saved |-> EmptyStore]
          /\ outcome = [useFallback |-> ~available, primary |-> EmptyStore,
                        fallback |-> EmptyStore, primaryFailing |-> ~available]

\* addCycle(item), awaited
AddCycle ==
    /\ call.fn = "getDB"
    /\ \E id \in Ids, item \in Contents :
          LET op == [type |-> "addCycle", id |-> id, item |-> item]
          IN  /\ outcome' = run(outcome, op).db
              /\ result' = run(outcome, op).value
              /\ call' = [call EXCEPT !.last = op, !.saved[id] = item]
    /\ UNCHANGED <<predictions, options, hostZone>>

\* updateCycle(item), awaited
UpdateCycle ==
    /\ call.fn = "getDB"
    /\ \E id \in Ids, item \in Contents :
          LET op == [type |-> "updateCycle", id |-> id, item |-> item]
          IN  /\ outcome' = run(outcome, op).db
              /\ result' = run(outcome, op).value
              /\ call' = [call EXCEPT !.last = op, !.saved[id] = item]
    /\ UNCHANGED <<predictions, options, hostZone>>

\* getCycle(id), awaited
GetCycle ==
    /\ call.fn = "getDB"
    /\ \E id \in Ids :
          LET op == [type |-> "getCycle", id |-> id]
          IN  /\ outcome' = run(outcome, op).db
              /\ result' = run(outcome, op).value
              /\ call' = [call EXCEPT !.last = op]
    /\ UNCHANGED <<predictions, options, hostZone>>

\* deleteCycle(id), awaited
DeleteCycle ==
    /\ call.fn = "getDB"
    /\ \E id \in Ids :
          LET op == [type |-> "deleteCycle", id |-> id]
          IN  /\ outcome' = run(outcome, op).db
              /\ result' = run(outcome, op).value
              /\ call' = [call EXCEPT !.last = op, !.saved[id] = NoRecord]
    /\ UNCHANGED <<predictions, options, hostZone>>

\* clearAll(), awaited
ClearAll ==
    /\ call.fn = "getDB"
    /\ outcome' = run(outcome, [type |-> "clearAll"]).db
    /\ result' = run(outcome, [type |-> "clearAll"]).value
    /\ call' = [call EXCEPT !.last = [type |-> "clearAll"], !.saved = EmptyStore]
    /\ UNCHANGED <<predictions, options, hostZone>>

\* IndexedDB starts to fail: from here on every request on it is rejected
PrimaryStartsFailing ==
    /\ call.fn = "getDB"
    /\ ~outcome.primaryFailing
    /\ outcome' = [outcome EXCEPT !.primaryFailing = TRUE]
    /\ UNCHANGED <<predictions, options, hostZone, result, call>>

NextStore ==
    \/ AddCycle \/ UpdateCycle \/ GetCycle \/ DeleteCycle \/ ClearAll
    \/ PrimaryStartsFailing

SpecStore == InitStore /\ [][NextStore]_vars

---------------------------------------------------------------------------
(* FertileDB.open: the connection and the open requests in flight          *)

MaxOpenCalls == 4      \* number of open() calls in a session
MaxRequests == 3       \* number of indexedDB.open requests in a session

\* this.db = null, this.opening = null
NoConnection == 0

\* Variant of open, defined next, without the test of this.opening: every
\* call made while no connection is set starts a request
openWithoutWaiting(db, available) ==
    IF ~available
    THEN [db EXCEPT !.opening = NoConnection,
                    !.calls = Append(db.calls, [state |-> "rejected", request |-> NoConnection,
                                                connection |-> NoConnection])]
    ELSE IF db.db # NoConnection
    THEN [db EXCEPT !.calls = Append(db.calls, [state |-> "resolved", request |-> NoConnection,
                                                connection |-> db.db])]
    ELSE [db EXCEPT !.requests = Append(db.requests, "pending"),
                    !.opening = Len(db.requests) + 1,
                    !.calls = Append(db.calls, [state |-> "pending",
                                                request |-> Len(db.requests) + 1,
                                                connection |-> NoConnection])]

\* The store after open() was called: requests[r] is the state of the
\* r-th indexedDB.open request (pending, error, open or closed, the last
\* two for the connection it has delivered), calls[i] the promise the i-th
\* open() has returned
open(db, available) ==
    IF ~available
    THEN [db EXCEPT !.opening = NoConnection,
                    !.calls = Append(db.calls, [state |-> "rejected", request |-> NoConnection,
                                                connection |-> NoConnection])]
    ELSE IF db.db # NoConnection
    THEN [db EXCEPT !.calls = Append(db.calls, [state |-> "resolved", request |-> NoConnection,
                                                connection |-> db.db])]
    ELSE IF db.opening # NoConnection
    THEN [db EXCEPT !.calls = Append(db.calls, [state |-> "pending", request |-> db.opening,
                                                connection |-> NoConnection])]
    ELSE [db EXCEPT !.requests = Append(db.requests, "pending"),
                    !.opening = Len(db.requests) + 1,
                    !.calls = Append(db.calls, [state |-> "pending",
                                                request |-> Len(db.requests) + 1,
                                                connection |-> NoConnection])]

\* The promises waiting for request r settle
settle(calls, r, state, connection) ==
    [i \in 1..Len(calls) |->
        IF calls[i].state = "pending" /\ calls[i].request = r
        THEN [calls[i] EXCEPT !.state = state, !.connection = connection]
        ELSE calls[i]]

\* new FertileDB(), in an environment with or without IndexedDB
InitOpen ==
    /\ predictions = <<>>
    /\ options = <<>>
    /\ hostZone = UTC
    /\ result = Pending
    /\ \E available \in BOOLEAN : call = [fn |-> "open", indexedDB |-> available]
    /\ outcome = [db |-> NoConnection, opening |-> NoConnection,
                  requests |-> <<>>, calls |-> <<>>]

\* A caller calls open()
Open ==
    /\ call.fn = "open"
    /\ Len(outcome.calls) < MaxOpenCalls
    /\ Len(open(outcome, call.indexedDB).requests) <= MaxRequests
    /\ outcome' = open(outcome, call.indexedDB)
    /\ UNCHANGED <<predictions, options, hostZone, result, call>>

\* request.onsuccess of the r-th request
OnSuccess ==
    /\ call.fn = "open"
    /\ \E r \in 1..Len(outcome.requests) :
          /\ outcome.requests[r] = "pending"
          /\ outcome' = [outcome EXCEPT !.db = r,
                                        !.opening = NoConnection,
                                        !.requests[r] = "open",
                                        !.calls = settle(outcome.calls, r, "resolved", r)]
    /\ UNCHANGED <<predictions, options, hostZone, result, call>>

\* request.onerror of the r-th request
OnError ==
    /\ call.fn = "open"
    /\ \E r \in 1..Len(outcome.requests) :
          /\ outcome.requests[r] = "pending"
          /\ outcome' = [outcome EXCEPT !.opening = NoConnection,
                                        !.requests[r] = "error",
                                        !.calls = settle(outcome.calls, r, "rejected",
                                                         NoConnection)]
    /\ UNCHANGED <<predictions, options, hostZone, result, call>>

\* close()
Close ==
    /\ call.fn = "open"
    /\ outcome' = IF outcome.db # NoConnection
                  THEN [outcome EXCEPT !.db = NoConnection,
                                       !.requests[outcome.db] = "closed"]
                  ELSE outcome
    /\ UNCHANGED <<predictions, options, hostZone, result, call>>

\* this.db.onclose: the browser closes a connection
OnClose ==
    /\ call.fn = "open"
    /\ \E c \in 1..Len(outcome.requests) :
          /\ outcome.requests[c] = "open"
          /\ outcome' = [outcome EXCEPT !.db = NoConnection, !.requests[c] = "closed"]
    /\ UNCHANGED <<predictions, options, hostZone, result, call>>

NextOpen == Open \/ OnSuccess \/ OnError \/ Close \/ OnClose

SpecOpen == InitOpen /\ [][NextOpen]_vars

---------------------------------------------------------------------------
(* Vocabulary of the properties                                            *)

Returned == result # Pending

IsResult == result.tag = "result"

DefaultOptions == DOMAIN options = {}

\* The host keeps UTC all year
HostOnUTC == hostZone.std = 0 /\ hostZone.dst = 0

\* The options in force, and the weight table in force
EffectiveOptions == Spread(DEFAULT_OPTIONS, options)

EffectiveWeights == Spread(DEFAULT_WEIGHTS, EffectiveOptions.weights)

\* The admitted predictions: those with non-zero confidence, in input order
AdmittedIndices == {i \in 1..Len(predictions) : predictions[i].confidence > 0}

Admitted == SelectSeq(predictions, LAMBDA p : p.confidence > 0)

\* The fallback path was taken / the normal path was taken
StartsWithLowConfidence(line) ==
    Len(line) >= 14 /\ SubSeq(line, 1, 14) = "Low confidence"

TookFallback == IsResult /\ StartsWithLowConfidence(result.explain[1])

TookNormalPath == IsResult /\ ~StartsWithLowConfidence(result.explain[1])

\* All predictions of the list share window and confidence
SameWindowAndConfidence(preds) ==
    \A i, j \in 1..Len(preds) :
        /\ preds[i].fertileStart = preds[j].fertileStart
        /\ preds[i].fertileEnd = preds[j].fertileEnd
        /\ preds[i].confidence = preds[j].confidence

---------------------------------------------------------------------------
(* C1: a single prediction                                                 *)

\* C1 as stated: for every single prediction P, confidence 0..100 included,
\* reconcile([P]) with default options returns a result that reports
\* inputPredictions = 1 and sourceAgreement = 1.
C1_AnySinglePrediction ==
    (Returned /\ DefaultOptions /\ Len(predictions) = 1)
        => /\ IsResult
           /\ result.diagnostics.inputPredictions = 1
           /\ result.diagnostics.sourceAgreement = 10000

\* C1 (amended): for every single prediction P with confidence 1..100,
\* reconcile([P]) with default options returns a result that reports
\* inputPredictions = 1 and sourceAgreement = 1; with confidence 0 it
\* returns null.
C1_SingleAdmittedPrediction ==
    (Returned /\ DefaultOptions /\ Len(predictions) = 1)
        => IF predictions[1].confidence >= 1
           THEN /\ IsResult
                /\ result.diagnostics.inputPredictions = 1
                /\ result.diagnostics.sourceAgreement = 10000
           ELSE result = Null

C1_Witness ==
    /\ Returned /\ DefaultOptions /\ Len(predictions) = 1
    /\ predictions[1].confidence >= 1
    /\ IsResult /\ result.diagnostics.inputPredictions = 1

---------------------------------------------------------------------------
(* C2: identical predictions                                               *)

\* C2 as stated: every list of n >= 2 predictions sharing start, end and
\* confidence reconciles, with default options, to a result with
\* sourceAgreement = 1 and confidence >= 0.8.
C2_IdenticalAnyConfidence ==
    (Returned /\ DefaultOptions /\ Len(predictions) >= 2
        /\ SameWindowAndConfidence(predictions))
        => /\ IsResult
           /\ result.diagnostics.sourceAgreement = 10000
           /\ result.confidence >= 800000

\* C2 (amended): every list of n >= 2 predictions sharing start, end and a
\* confidence of at least 1 reconciles, with default options, to a result
\* with sourceAgreement = 1; its confidence is >= 0.8 when the shared
\* confidence is above 30, and is the fallback's 0.5 when the shared
\* confidence is below 30.
C2_IdenticalAdmitted ==
    (Returned /\ DefaultOptions /\ Len(predictions) >= 2
        /\ SameWindowAndConfidence(predictions)
        /\ predictions[1].confidence >= 1)
        => /\ IsResult
           /\ result.diagnostics.sourceAgreement = 10000
           /\ predictions[1].confidence > 30 => result.confidence >= 800000
           /\ predictions[1].confidence < 30 => result.confidence = 500000

C2_Witness ==
    /\ Returned /\ DefaultOptions /\ Len(predictions) >= 2
    /\ SameWindowAndConfidence(predictions)
    /\ predictions[1].confidence > 30
    /\ predictions[1].source # predictions[2].source
    /\ IsResult /\ result.confidence >= 800000

---------------------------------------------------------------------------
(* C3: order independence                                                  *)

\* The list preds rearranged by the permutation perm of its indices
Rearranged(preds, perm) == [i \in 1..Len(preds) |-> preds[perm[i]]]

\* The number of times x occurs in the sequence xs
Occurrences(xs, x) == Cardinality({i \in 1..Len(xs) : xs[i] = x})

SameMultiset(xs, ys) ==
    /\ Len(xs) = Len(ys)
    /\ \A i \in 1..Len(xs) : Occurrences(xs, xs[i]) = Occurrences(ys, xs[i])

\* Both null, or the same window, confidence and multiset of outliers
SameOutcome(r1, r2) ==
    IF r1 = Null \/ r2 = Null THEN r1 = r2
    ELSE /\ r1.fertileStart = r2.fertileStart
         /\ r1.fertileEnd = r2.fertileEnd
         /\ r1.confidence = r2.confidence
         /\ SameMultiset(r1.diagnostics.outliers, r2.diagnostics.outliers)

\* C3: for every list L, every permutation L' of L and the same options,
\* reconcile(L) and reconcile(L') are both null or agree on fertileStart,
\* fertileEnd, confidence and the multiset of outlier sources.  Stated for
\* the callers that keep the default weight table, on a host on UTC.
C3_PermutationInvariant ==
    (Returned /\ HostOnUTC /\ "weights" \notin DOMAIN options) =>
        \A perm \in Permutations(1..Len(predictions)) :
            SameOutcome(result,
                        reconcile(Rearranged(predictions, perm), options, hostZone))

---------------------------------------------------------------------------
(* C4: range of the confidence                                             *)

\* C4: every non-null result of reconcile, from the normal path and from
\* the fallback path, has 0 <= confidence <= 1.
C4_ConfidenceInUnitInterval ==
    IsResult => (0 <= result.confidence /\ result.confidence <= 1000000)

\* a fallback result and its confidence floor of 0.2
C4_Witness ==
    TookFallback /\ result.confidence = 200000 /\ Len(Admitted) >= 2

---------------------------------------------------------------------------
(* C5: adding an outlier                                                   *)

\* The list without its last element, and that element
Front(preds) == SubSeq(preds, 1, Len(preds) - 1)

Last(preds) == preds[Len(preds)]

\* The last prediction X of the list is the one reported: its source is in
\* the outlier list and no other prediction carries that source
LastIsReportedOutlier ==
    /\ \E i \in 1..Len(result.diagnostics.outliers) :
           result.diagnostics.outliers[i] = Last(predictions).source
    /\ \A i \in 1..(Len(predictions) - 1) :
           predictions[i].source # Last(predictions).source

\* C5: for every list L of at least 2 admitted predictions and every X
\* reported as an outlier of L + [X], with the same options
\* reconcile(L + [X]).confidence <= reconcile(L).confidence.  Stated for a
\* host on UTC.
C5_OutlierNeverRaisesConfidence ==
    (IsResult /\ HostOnUTC /\ Len(predictions) >= 3
        /\ AdmittedIndices = 1..Len(predictions)
        /\ LastIsReportedOutlier)
        => LET without == reconcile(Front(predictions), options, hostZone)
           IN  without # Null => result.confidence <= without.confidence

---------------------------------------------------------------------------
(* C6: admission                                                           *)

\* C6: reconcile returns null when the list has fewer than minSources
\* predictions, and when every prediction has confidence 0; predictions
\* with confidence 0 are not counted in diagnostics.inputPredictions.
C6_Admission ==
    Returned =>
        /\ Len(predictions) < EffectiveOptions.minSources => result = Null
        /\ AdmittedIndices = {} => result = Null
        /\ IsResult => result.diagnostics.inputPredictions = Cardinality(AdmittedIndices)

\* a zero-confidence prediction was dropped and the rest reconciled
C6_Witness ==
    /\ IsResult
    /\ Cardinality(AdmittedIndices) < Len(predictions)
    /\ result.diagnostics.inputPredictions = Cardinality(AdmittedIndices)

---------------------------------------------------------------------------
(* C7: fallback                                                            *)

\* No day's probability reaches the effective threshold
NoDayReachesThreshold ==
    LET threshold == effectiveThreshold(EffectiveOptions, result.diagnostics.sourceAgreement)
    IN  \A i \in 1..Len(result.diagnostics.dayScores) :
            result.diagnostics.dayScores[i].probability < threshold

\* The admitted prediction of highest effective weight, the first in input
\* order among equal weights
HeaviestAdmitted ==
    LET w(i) == getWeight(Admitted[i].source, EffectiveWeights)
        best == CHOOSE i \in 1..Len(Admitted) :
                    /\ \A j \in 1..Len(Admitted) : w(j) <= w(i)
                    /\ \A j \in 1..(i - 1) : w(j) < w(i)
    IN  Admitted[best]

\* C7: when a prediction is admitted but no day's probability reaches the
\* effective threshold, reconcile returns window and ovulation date of the
\* admitted prediction with the highest effective weight (the first among
\* equals) unchanged, confidence max(0.2, 0.5 * sourceAgreement), an explain
\* list that starts with 'Low confidence' and names that source, and
\* diagnostics with agreement, outliers, dayScores and the admitted count.
C7_Fallback ==
    (IsResult /\ NoDayReachesThreshold) =>
        LET best == HeaviestAdmitted
        IN  /\ result.fertileStart = parseDate(best.fertileStart)
            /\ result.fertileEnd = parseDate(best.fertileEnd)
            /\ result.ovulationDate = (IF best.ovulationDate = Undefined THEN Undefined
                                       ELSE parseDate(best.ovulationDate))
            /\ result.confidence = Max(200000, 50 * result.diagnostics.sourceAgreement)
            /\ StartsWithLowConfidence(result.explain[1])
            /\ result.explain[2] = "Falling back to " \o best.source \o " prediction"
            /\ result.diagnostics.sourceAgreement = calculateSourceAgreement(Admitted)
            /\ result.diagnostics.outliers = identifyOutliers(Admitted, EffectiveWeights)
            /\ result.diagnostics.dayScores = buildDayScores(Admitted, EffectiveWeights, hostZone)
            /\ result.diagnostics.inputPredictions = Len(Admitted)

\* a fallback where the heaviest weight is shared and the first one wins
C7_Witness ==
    /\ IsResult /\ NoDayReachesThreshold
    /\ \E i, j \in 1..Len(Admitted) :
           /\ i < j
           /\ getWeight(Admitted[i].source, EffectiveWeights)
                  = getWeight(Admitted[j].source, EffectiveWeights)
           /\ Admitted[i].fertileStart # Admitted[j].fertileStart
           /\ Admitted[i] = HeaviestAdmitted
    /\ result.fertileStart = parseDate(HeaviestAdmitted.fertileStart)
    /\ result.ovulationDate # Undefined

---------------------------------------------------------------------------
(* C8: minSources equal to the number of admitted predictions              *)

\* C8: for every k >= 1 and every list with exactly k admitted predictions,
\* reconcile with minSources = k returns what reconcile with minSources = 1
\* returns on the same list and otherwise equal options.
C8_MinSourcesAtAdmittedCount ==
    (Returned /\ Cardinality(AdmittedIndices) >= 1
        /\ EffectiveOptions.minSources = Cardinality(AdmittedIndices))
        => result = reconcile(predictions, Spread(options, [minSources |-> 1]), hostZone)

\* minSources = 2 met by exactly two admitted predictions of a longer list
C8_Witness ==
    /\ IsResult
    /\ EffectiveOptions.minSources = 2
    /\ Cardinality(AdmittedIndices) = 2
    /\ Len(predictions) = 3

---------------------------------------------------------------------------
(* C9: outliers                                                            *)

\* Prediction p lies more than 3 days from the weight-averaged start or
\* end of preds (exact comparison, in hours times total weight)
MoreThanThreeDaysOff(p, preds, weights) ==
    LET n  == Len(preds)
        w(i) == getWeight(preds[i].source, weights)
        total    == SumSeq([i \in 1..n |-> w(i)])
        startSum == SumSeq([i \in 1..n |-> parseDate(preds[i].fertileStart) * w(i)])
        endSum   == SumSeq([i \in 1..n |-> parseDate(preds[i].fertileEnd) * w(i)])
    IN  \/ Abs(parseDate(p.fertileStart) * total - startSum) > 72 * total
        \/ Abs(parseDate(p.fertileEnd) * total - endSum) > 72 * total

\* C9: diagnostics.outliers is empty when fewer than three predictions are
\* admitted; with three or more it holds, in input order and with
\* duplicates, the source of exactly the admitted predictions whose start or
\* end differs from the weight-averaged start or end by more than 3 days.
\* Stated for weight tables whose admitted total is positive, on a host on
\* UTC.
C9_OutliersBeyondThreeDays ==
    (IsResult /\ HostOnUTC /\ SumSeq(MapSeq(Admitted, LAMBDA p : getWeight(p.source, EffectiveWeights))) > 0)
        => result.diagnostics.outliers =
             (IF Len(Admitted) < 3 THEN <<>>
              ELSE MapSeq(SelectSeq(Admitted,
                                    LAMBDA p : MoreThanThreeDaysOff(p, Admitted, EffectiveWeights)),
                          LAMBDA p : p.source))

---------------------------------------------------------------------------
(* C10: day probabilities                                                  *)

\* The civil date d lies inside the window of every admitted prediction
InsideEveryWindow(d) ==
    \A i \in 1..Len(Admitted) :
        Admitted[i].fertileStart <= d /\ d <= Admitted[i].fertileEnd

\* C10: for every admitted list and every weight table with values in
\* [0, 1], every entry of diagnostics.dayScores has probability >= 0, and
\* every date inside the window of every admitted prediction has
\* probability > 0.  Stated for weight tables whose admitted total is
\* positive.
C10_DayProbabilities ==
    (IsResult /\ SumSeq(MapSeq(Admitted, LAMBDA p : getWeight(p.source, EffectiveWeights))) > 0)
        => \A i \in 1..Len(result.diagnostics.dayScores) :
               LET day == result.diagnostics.dayScores[i]
               IN  /\ day.probability >= 0
                   /\ InsideEveryWindow(day.date) => day.probability > 0

---------------------------------------------------------------------------
(* C11: source-reported ovulation dates                                    *)

\* The list with every ovulationDate removed: two lists that are equal
\* except for their ovulationDate fields have the same image
WithoutOvulationDates(preds) ==
    [i \in 1..Len(preds) |-> [preds[i] EXCEPT !.ovulationDate = Undefined]]

\* The list with every ovulationDate set to the last day of the window
WithOvulationAtEnd(preds) ==
    [i \in 1..Len(preds) |-> [preds[i] EXCEPT !.ovulationDate = preds[i].fertileEnd]]

\* r1 and r2 are both null or agree on window and confidence
SameWindowConfidence(r1, r2) ==
    IF r1 = Null \/ r2 = Null THEN r1 = r2
    ELSE /\ r1.fertileStart = r2.fertileStart
         /\ r1.fertileEnd = r2.fertileEnd
         /\ r1.confidence = r2.confidence

\* C11 as stated: two lists that are equal except for the ovulationDate of
\* their predictions reconcile, with the same options, to the same
\* fertileStart, fertileEnd, ovulationDate and confidence.
C11_OvulationDatesNeverRead ==
    Returned =>
        \A other \in {reconcile(WithoutOvulationDates(predictions), options, hostZone),
                      reconcile(WithOvulationAtEnd(predictions), options, hostZone)} :
            /\ SameWindowConfidence(result, other)
            /\ IsResult => result.ovulationDate = other.ovulationDate

\* C11 (amended): two lists that are equal except for the ovulationDate of
\* their predictions reconcile, with the same options, to the same
\* fertileStart, fertileEnd and confidence, and on the normal path to the
\* same ovulationDate; on the fallback path the ovulationDate is the one
\* reported by the prediction that is fallen back to.
C11_OvulationDatesReadByFallbackOnly ==
    Returned =>
        \A other \in {reconcile(WithoutOvulationDates(predictions), options, hostZone),
                      reconcile(WithOvulationAtEnd(predictions), options, hostZone)} :
            /\ SameWindowConfidence(result, other)
            /\ TookNormalPath => result.ovulationDate = other.ovulationDate
            /\ TookFallback =>
                   result.ovulationDate =
                       (IF HeaviestAdmitted.ovulationDate = Undefined THEN Undefined
                        ELSE parseDate(HeaviestAdmitted.ovulationDate))

\* a normal-path result whose ovulation day is none of the reported ones
C11_Witness ==
    /\ TookNormalPath
    /\ \E i \in AdmittedIndices : predictions[i].ovulationDate # Undefined
    /\ \A i \in AdmittedIndices :
           predictions[i].ovulationDate # Undefined
               => result.ovulationDate # parseDate(predictions[i].ovulationDate)

---------------------------------------------------------------------------
(* C12: the calendar window                                                *)

CalledPredictFromCalendar == call.fn = "predictFromCalendar" /\ outcome # Pending

CalendarOptions == Spread(CALENDAR_DEFAULT_OPTIONS, call.opt)

\* The rounded mean of the historical cycle lengths (halves go up), 28 for
\* an empty history
RoundedMeanLength(cycles) ==
    LET n     == Len(cycles)
        total == SumSeq([i \in 1..n |-> cycles[i].length])
    IN  IF n = 0 THEN 28
        ELSE CHOOSE c \in 0..100 : 2 * c * n - n <= 2 * total /\ 2 * total < 2 * c * n + n

\* The civil date `date` lies k days after the civil date `from`
DaysAfter(date, from, k) == DaysFromCivil(date) = DaysFromCivil(from) + k

\* C12: predictFromCalendar returns fertileStart = S + (C-L-B) days,
\* fertileEnd = S + (C-L+A) days and ovulationDate = S + (C-L) days, C being
\* the rounded mean of the historical lengths, or 28 for an empty history;
\* with defaults and empty history a start of 2025-02-01 gives the window
\* 2025-02-10..2025-02-16 and ovulation 2025-02-15.
C12_CalendarWindow ==
    CalledPredictFromCalendar =>
        LET S == call.currentCycleStart
            C == RoundedMeanLength(call.historicalCycles)
            L == CalendarOptions.lutealPhaseLength
            B == CalendarOptions.daysBeforeOvulation
            A == CalendarOptions.daysAfterOvulation
        IN  /\ DaysAfter(outcome.fertileStart, S, C - L - B)
            /\ DaysAfter(outcome.fertileEnd, S, C - L + A)
            /\ DaysAfter(outcome.ovulationDate, S, C - L)
            /\ (S = ISODate(2025, 2, 1) /\ call.historicalCycles = <<>> /\ call.opt = <<>>)
                   => /\ outcome.fertileStart = ISODate(2025, 2, 10)
                      /\ outcome.fertileEnd = ISODate(2025, 2, 16)
                      /\ outcome.ovulationDate = ISODate(2025, 2, 15)

\* a history whose mean is a half, and a window that crosses a leap day
C12_Witness ==
    /\ CalledPredictFromCalendar
    /\ call.historicalCycles = <<Cycle(21), Cycle(28)>>
    /\ call.currentCycleStart = ISODate(2024, 2, 20)
    /\ call.opt = <<>>
    /\ outcome.fertileStart = ISODate(2024, 2, 26)
    /\ outcome.fertileEnd = ISODate(2024, 3, 3)

---------------------------------------------------------------------------
(* C13: the calendar confidence                                            *)

\* sigma <= k for the population standard deviation sigma of the lengths,
\* taken as 5 with fewer than two cycles: sum (n l - total)^2 <= k^2 n^3
SigmaAtMost(cycles, k) ==
    LET n     == Len(cycles)
        total == SumSeq([i \in 1..n |-> cycles[i].length])
    IN  IF n < 2 THEN 5 <= k
        ELSE SumSeq([i \in 1..n |-> (n * cycles[i].length - total)
                                        * (n * cycles[i].length - total)])
                 <= k * k * n * n * n

\* Clamp to [20, 80], in half points
ClampCalendar(x) == Max(40, Min(160, x))

\* The confidence C13 describes, clamped after each adjustment, in half
\* points
SteppedCalendarConfidence(cycles, R) ==
    LET afterHistory ==
            ClampCalendar(110 + (IF Len(cycles) >= 6 THEN 20
                                 ELSE IF Len(cycles) >= 3 THEN 10 ELSE 0))
    IN  ClampCalendar(IF SigmaAtMost(cycles, 2) THEN afterHistory + 2 * R
                      ELSE IF SigmaAtMost(cycles, 4) THEN afterHistory + R
                      ELSE IF ~SigmaAtMost(cycles, 6) THEN afterHistory - 30
                      ELSE afterHistory)

\* C13: the confidence of predictFromCalendar is 55, plus 10 with >= 6
\* cycles or 5 with >= 3, then plus R if sigma <= 2, plus R/2 if sigma <= 4,
\* minus 15 if sigma > 6, clamped to [20, 80] after each adjustment; hence
\* it lies in [20, 80].
C13_CalendarConfidence ==
    CalledPredictFromCalendar =>
        /\ outcome.confidence =
               SteppedCalendarConfidence(call.historicalCycles, CalendarOptions.regularityBonus)
        /\ 40 <= outcome.confidence /\ outcome.confidence <= 160

\* six irregular cycles: 55 + 10 - 15 = 50
C13_Witness ==
    /\ CalledPredictFromCalendar
    /\ Len(call.historicalCycles) >= 6
    /\ ~SigmaAtMost(call.historicalCycles, 6)
    /\ outcome.confidence = 100

---------------------------------------------------------------------------
(* C14: several cycles ahead                                               *)

CalledPredictMultipleCycles == call.fn = "predictMultipleCycles" /\ outcome # Pending

---------------------------------------------------------------------------
(* C15: where the symptom predictor puts the window                        *)

CalledPredictFromSymptoms == call.fn = "predictFromSymptoms" /\ outcome # Pending

ObservedOn(type) ==
    {call.observations[i] : i \in {j \in 1..Len(call.observations) :
                                       call.observations[j].type = type}}

\* The dates with a positive OPK, and the dates with a CM score of 3 or more
PositiveOPKDates == {o.date : o \in {p \in ObservedOn("opk") : p.value = "positive"}}

HighCMObservations ==
    {o \in ObservedOn("cervical-mucus") : CM_FERTILITY_SCORES[o.value] >= 3}

HighCMDates == {o.date : o \in HighCMObservations}

Earliest(dates) == CHOOSE d \in dates : \A e \in dates : d <= e

\* P: the highest-scoring date of HighCMDates, the earliest on ties
PeakCMDate ==
    LET best == CHOOSE o \in HighCMObservations :
                    \A p \in HighCMObservations :
                        \/ CM_FERTILITY_SCORES[o.value] > CM_FERTILITY_SCORES[p.value]
                        \/ /\ CM_FERTILITY_SCORES[o.value] = CM_FERTILITY_SCORES[p.value]
                           /\ o.date <= p.date
    IN  best.date

IsWindow(start, end, ovulation) ==
    /\ outcome # Null
    /\ outcome.fertileStart = start
    /\ outcome.fertileEnd = end
    /\ outcome.ovulationDate = ovulation

\* C15: predictFromSymptoms with the default options: if a date has a
\* positive OPK and D is the earliest such date, the window is [D-2, D+2]
\* and ovulation D+1; otherwise, if a date has a CM score >= 3, the window
\* starts at the earliest such date and ends at P+2 with ovulation P+1, P
\* the highest-scoring such date (the earliest on ties); otherwise the
\* result is null.
C15_SymptomWindow ==
    CalledPredictFromSymptoms =>
        IF PositiveOPKDates # {}
        THEN LET D == Earliest(PositiveOPKDates)
             IN  IsWindow(D - 2, D + 2, D + 1)
        ELSE IF HighCMDates # {}
        THEN IsWindow(Earliest(HighCMDates), PeakCMDate + 2, PeakCMDate + 1)
        ELSE outcome = Null

\* C15 on a host on UTC only
C15_SymptomWindowOnUTC == (hostZone = UTC) => C15_SymptomWindow

\* C15 where no date carries two OPK results
C15_SymptomWindowOneOPKPerDate ==
    (\A o \in ObservedOn("opk"), p \in ObservedOn("opk") : o.date = p.date => o = p)
        => C15_SymptomWindow

\* C15 on UTC where no date carries two OPK results
C15_SymptomWindowNarrowed ==
    (/\ hostZone = UTC
     /\ \A o \in ObservedOn("opk"), p \in ObservedOn("opk") : o.date = p.date => o = p)
        => C15_SymptomWindow

---------------------------------------------------------------------------
(* C16: confidence and source tag of the symptom predictor                 *)

ReturnedSymptomPrediction == CalledPredictFromSymptoms /\ outcome # Null

\* The observations the predictor keeps (cervical mucus, OPK, temperature)
RelevantObservations ==
    ObservedOn("cervical-mucus") \cup ObservedOn("opk") \cup ObservedOn("bbt")

RelevantCount ==
    Cardinality({i \in 1..Len(call.observations) :
                     call.observations[i].type \in {"cervical-mucus", "opk", "bbt"}})

ObservedDates == {o.date : o \in RelevantObservations}

\* min(95, 40 + 35*[OPK] + 15*[CM] + (10 if n >= 10, else 5 if n >= 5)
\*              + 10*[OPK and CM])
SymptomConfidence(n) ==
    LET opk == PositiveOPKDates # {}
        cm  == HighCMDates # {}
    IN  Min(95, 40 + (IF opk THEN 35 ELSE 0) + (IF cm THEN 15 ELSE 0)
                   + (IF n >= 10 THEN 10 ELSE IF n >= 5 THEN 5 ELSE 0)
                   + (IF opk /\ cm THEN 10 ELSE 0))

OneOPKPerDate ==
    \A o \in ObservedOn("opk"), p \in ObservedOn("opk") : o.date = p.date => o = p

\* C16: every prediction returned by predictFromSymptoms has the source tag
\* 'fertility-friend' and the confidence min(95, 40 + 35 if a positive OPK
\* exists + 15 if a CM score >= 3 exists + 10 for ten or more dated
\* observations, else 5 for five or more + 10 if both exist), the dated
\* observations counted as the dates that carry one.
C16_SymptomConfidence ==
    ReturnedSymptomPrediction =>
        /\ outcome.source = "fertility-friend"
        /\ outcome.confidence = SymptomConfidence(Cardinality(ObservedDates))

\* C16 with the dated observations counted one by one
C16_SymptomConfidencePerObservation ==
    ReturnedSymptomPrediction =>
        /\ outcome.source = "fertility-friend"
        /\ outcome.confidence = SymptomConfidence(RelevantCount)

\* C16 where no date carries two OPK results
C16_SymptomConfidenceOneOPKPerDate == OneOPKPerDate => C16_SymptomConfidence

\* C16, counted one by one, where no date carries two OPK results
C16_PerObservationOneOPKPerDate == OneOPKPerDate => C16_SymptomConfidencePerObservation

---------------------------------------------------------------------------
(* C17: the BBT shift detector                                             *)

CalledDetectBBTShift == call.fn = "detectBBTShift" /\ outcome # Pending

\* The readings in date order (the dates of a list of readings differ)
ReadingsByDate ==
    LET obs == call.observations
        n   == Len(obs)
    IN  [k \in 1..n |->
            CHOOSE o \in {obs[i] : i \in 1..n} :
                Cardinality({i \in 1..n : obs[i].date < o.date}) = k - 1]

Max6(six) == CHOOSE v \in {six[k] : k \in 1..6} : \A k \in 1..6 : six[k] <= v

\* Five times the baseline: the sum of the lowest five of the first six
\* readings by date, the sum of the six less their maximum
FiveBaselines ==
    LET six == [k \in 1..6 |-> ReadingsByDate[k].value]
    IN  SumSeq(six) - Max6(six)

\* value >= baseline + 0.2, in exact arithmetic
ElevatedReading(o) == 5 * o.value >= FiveBaselines + 10

\* The positions i >= 6, counted from 0, whose readings i, i+1, i+2 are all
\* elevated (position i counted from 0 is ReadingsByDate[i + 1])
SustainedRises ==
    {i \in 6..(Len(call.observations) - 3) :
         /\ ElevatedReading(ReadingsByDate[i + 1])
         /\ ElevatedReading(ReadingsByDate[i + 2])
         /\ ElevatedReading(ReadingsByDate[i + 3])}

\* C17: detectBBTShift returns null for fewer than 6 readings and when no
\* three readings at the sorted positions i, i+1, i+2, i >= 6, are all
\* >= baseline + 0.2, baseline the mean of the lowest 5 of the first 6
\* readings by date; otherwise it returns confirmed = true and the date of
\* the first such position as shiftDate.
C17_BBTShift ==
    CalledDetectBBTShift =>
        IF Len(call.observations) < 6 \/ SustainedRises = {}
        THEN outcome = Null
        ELSE /\ outcome # Null
             /\ outcome.confirmed
             /\ outcome.shiftDate =
                    ReadingsByDate[(CHOOSE i \in SustainedRises :
                                        \A j \in SustainedRises : i <= j) + 1].date

\* The half of C17 that forbids a report: a shift is reported only for six
\* or more readings with a sustained rise, and then at its first position
C17_NoShiftWithoutRise ==
    (CalledDetectBBTShift /\ outcome # Null) =>
        /\ Len(call.observations) >= 6
        /\ SustainedRises # {}
        /\ outcome.confirmed
        /\ outcome.shiftDate =
               ReadingsByDate[(CHOOSE i \in SustainedRises :
                                   \A j \in SustainedRises : i <= j) + 1].date

\* C17 away from the readings that equal baseline + 0.2 exactly
C17_BBTShiftOffTheBoundary ==
    (CalledDetectBBTShift /\ \A i \in 1..Len(call.observations) :
         Len(call.observations) >= 6 => 5 * call.observations[i].value # FiveBaselines + 10)
        => C17_BBTShift

---------------------------------------------------------------------------
(* C18: rows without a date                                                *)

CalledParseFFCSV == call.fn = "parseFFCSV" /\ outcome # Pending

DataRowCount == Len(call.parsed.data)

\* The date cell of data row i, as the header names it (no cell without a
\* date column)
DateCellOf(i) ==
    LET row == call.parsed.data[i]
    IN  IF toLowerCase(row.keys[1]) = "date" THEN row.cells[1] ELSE ""

\* What the date cells of the model denote: a calendar date, or nothing
DenotedDate ==
    ("2024-01-15" :> ISODate(2024, 1, 15)) @@ (" 2024-02-01 " :> ISODate(2024, 2, 1))
        @@ ("03/04/2024" :> ISODate(2024, 3, 4)) @@ ("3/4/2024" :> ISODate(2024, 3, 4))
        @@ ("15/01/2024" :> ISODate(2024, 1, 15))
        @@ ("Jan 15, 2024" :> ISODate(2024, 1, 15))
        @@ ("2024-01-16" :> ISODate(2024, 1, 16)) @@ ("2024-01-17" :> ISODate(2024, 1, 17))

DenotesDate(cell) == cell \in DOMAIN DenotedDate

\* The errors with field 'Date' for file row n (header = row 1)
DateErrorsOf(n) ==
    {k \in 1..Len(outcome.errors) :
         outcome.errors[k].field = "Date" /\ outcome.errors[k].row = n}

\* The data rows with a date, in file order, and the number of them
DatedRows == {i \in 1..DataRowCount : DenotesDate(DateCellOf(i))}

\* C18: each data row whose date cell is empty or denotes no calendar date
\* produces exactly one error with field 'Date' and its row number (header
\* = row 1) and no observation; every other row produces its observation;
\* with such a row the result has success = false.
C18_RowsWithoutDate ==
    CalledParseFFCSV =>
        /\ \A i \in 1..DataRowCount :
               Cardinality(DateErrorsOf(i + 1)) = (IF DenotesDate(DateCellOf(i)) THEN 0 ELSE 1)
        /\ Len(outcome.observations) = Cardinality(DatedRows)
        /\ (DatedRows # 1..DataRowCount) => ~outcome.success

\* C18 for the files whose date cells are empty, blank, dates, or cells no
\* format reads, without the cells of the form dddd-dd-dd that are no date
C18_RowsWithoutDateUnlessISOShaped ==
    (CalledParseFFCSV /\ \A i \in 1..DataRowCount : DateCellOf(i) # "2024-13-45")
        => C18_RowsWithoutDate

---------------------------------------------------------------------------
(* C19: the order of the date formats                                      *)

\* YYYY-MM-DD for a year and the numbers of month and day as written
DashDate(year, month, day) == year \o "-" \o padStart2(month) \o "-" \o padStart2(day)

\* The date a cell a/b/YYYY resolves to: month a and day b where that is a
\* date, month b and day a where a exceeds 12
ResolvedSlashDate(cell) ==
    LET groups == matchSlashes(trim(cell))
    IN  IF NumberOf(groups[1]) <= 12
        THEN DashDate(groups[3], groups[1], groups[2])
        ELSE DashDate(groups[3], groups[2], groups[1])

SlashCells == {"03/04/2024", "3/4/2024", "15/01/2024"}

\* A file of one data row whose date cell is a slash date
ParsedOneSlashDate ==
    /\ CalledParseFFCSV
    /\ DataRowCount = 1
    /\ DateCellOf(1) \in SlashCells

\* C19: a cell a/b/YYYY that is a US date is emitted as YYYY-a-b
\* (03/04/2024 becomes 2024-03-04), and a cell whose first number exceeds 12
\* (15/01/2024) is emitted by the European rule as YYYY-b-a (2024-01-15).
C19_SlashDates ==
    ParsedOneSlashDate =>
        /\ Len(outcome.observations) = 1
        /\ outcome.observations[1].date = ResolvedSlashDate(DateCellOf(1))

\* C19 for the cells whose first number is a month
C19_USDates ==
    (ParsedOneSlashDate /\ DateCellOf(1) # "15/01/2024") => C19_SlashDates

\* What parseFFCSV emits for a cell whose first number exceeds 12: the
\* first number as the month
C19_EuropeanCellReadAsUS ==
    (ParsedOneSlashDate /\ DateCellOf(1) = "15/01/2024") =>
        /\ DateErrorsOf(2) = {}
        /\ Len(outcome.observations) = 1
        /\ outcome.observations[1].date = "2024-15-01"

---------------------------------------------------------------------------
(* C20: order of the imported observations, duplicate dates                *)

\* Year, month and day of an emitted date
DateParts(date) ==
    << NumberOf(SubSeq(date, 1, 4)), NumberOf(SubSeq(date, 6, 7)),
       NumberOf(SubSeq(date, 9, 10)) >>

\* a is before b
Before(a, b) ==
    LET p == DateParts(a)
        q == DateParts(b)
    IN  \/ p[1] < q[1]
        \/ p[1] = q[1] /\ p[2] < q[2]
        \/ p[1] = q[1] /\ p[2] = q[2] /\ p[3] < q[3]

EmittedDates == {outcome.observations[k].date : k \in 1..Len(outcome.observations)}

ObservationsOn(date) ==
    {k \in 1..Len(outcome.observations) : outcome.observations[k].date = date}

DuplicateWarningsFor(date) ==
    {k \in 1..Len(outcome.warnings) :
         /\ outcome.warnings[k].field = "Date"
         /\ outcome.warnings[k].message = "Duplicate date found: " \o date}

\* The data rows that gave a 'Date' error
RowsInError == {i \in 1..DataRowCount : DateErrorsOf(i + 1) # {}}

C20_SortedByDenotedDate ==
    (/\ CalledParseFFCSV
     /\ DataRowCount = 2
     /\ DateCellOf(1) = "15/01/2024"
     /\ DateCellOf(2) = " 2024-02-01 ")
        => outcome.observations[2].date = "2024-02-01"

---------------------------------------------------------------------------
(* C21: advisory conditions                                                *)

\* A file with date, temperature, cervical mucus and OPK columns, parsed
ParsedSignFile ==
    CalledParseFFCSV /\ call.parsed.fields = <<"Date", "Temp", "CM", "OPK">>

TempCellOf(i) == call.parsed.data[i].cells[2]

CMCellOf(i) == call.parsed.data[i].cells[3]

OPKCellOf(i) == call.parsed.data[i].cells[4]

\* The cells of the model with a temperature outside 95..101
OutOfRangeTemps == {"105F"}

\* The cells of the model whose value is in neither synonym table
UnknownSigns == {"egg-white", "spotting", "xyz", "maybe"}

WarningsAbout(n, cell) ==
    {k \in 1..Len(outcome.warnings) :
         outcome.warnings[k].row = n /\ outcome.warnings[k].value = cell}

\* In a sign file every date cell is a date of its own, so the observation
\* of data row i is the i-th
RawOf(i) == outcome.observations[i]

\* C21: a temperature outside 95..101 and a cervical-mucus or OPK cell whose
\* value is not in the synonym table each produce a warning and no error,
\* leave the data of the row in the observations and do not change success
\* (the duplicate dates are C20's).
C21_AdvisoryWarnings ==
    ParsedSignFile =>
        /\ outcome.success
        /\ outcome.errors = <<>>
        /\ Len(outcome.observations) = DataRowCount
        /\ \A i \in 1..DataRowCount :
               /\ TempCellOf(i) \in OutOfRangeTemps =>
                      /\ WarningsAbout(i + 1, TempCellOf(i)) # {}
                      /\ "temp" \in DOMAIN RawOf(i)
               /\ CMCellOf(i) \in UnknownSigns =>
                      /\ WarningsAbout(i + 1, CMCellOf(i)) # {}
                      /\ "cervicalMucus" \in DOMAIN RawOf(i)
               /\ OPKCellOf(i) \in UnknownSigns =>
                      /\ WarningsAbout(i + 1, OPKCellOf(i)) # {}
                      /\ "opk" \in DOMAIN RawOf(i)

\* The temperature part of C21, on every file of the model: one warning per
\* out-of-range temperature of a row with a date, the temperature kept
C21_TemperatureWarnings ==
    CalledParseFFCSV =>
        \A i \in 1..DataRowCount :
            (TempCellOf(i) \in OutOfRangeTemps /\ DateErrorsOf(i + 1) = {}) =>
                /\ Cardinality(WarningsAbout(i + 1, TempCellOf(i))) = 1
                /\ \E k \in 1..Len(outcome.observations) :
                       /\ "temp" \in DOMAIN outcome.observations[k]
                       /\ outcome.observations[k].temp = 1050
                /\ outcome.success = (outcome.errors = <<>>)

\* What parseFFCSV does with a sign it does not know: no warning, the value
\* 'unknown' in the raw observation
C21_UnknownSignsPassSilently ==
    ParsedSignFile =>
        \A i \in 1..DataRowCount :
            /\ CMCellOf(i) \in UnknownSigns =>
                   /\ WarningsAbout(i + 1, CMCellOf(i)) = {}
                   /\ RawOf(i).cervicalMucus = "unknown"
            /\ OPKCellOf(i) \in UnknownSigns =>
                   /\ WarningsAbout(i + 1, OPKCellOf(i)) = {}
                   /\ RawOf(i).opk = "unknown"

\* and convertToObservations drops it: no observation of that type on the
\* date of the row
C21_UnknownSignsDropped ==
    (ParsedSignFile /\ result # Pending) =>
        \A i \in 1..DataRowCount :
            /\ CMCellOf(i) \in UnknownSigns =>
                   ~\E k \in 1..Len(result.observations) :
                        /\ result.observations[k].date = RawOf(i).date
                        /\ result.observations[k].type = "cervical-mucus"
            /\ OPKCellOf(i) \in UnknownSigns =>
                   ~\E k \in 1..Len(result.observations) :
                        /\ result.observations[k].date = RawOf(i).date
                        /\ result.observations[k].type = "opk"

---------------------------------------------------------------------------
(* C22: normalization on its own output vocabulary                         *)

\* The cervical mucus and OPK values of the observation vocabulary that
\* normalization can emit
CMVocabulary == {"dry", "sticky", "creamy", "watery", "egg-white", "spotting"}

OPKVocabulary == {"negative", "positive"}

Converted == ParsedSignFile /\ result # Pending

\* The values of the observations of a type that data row i was converted to
ConvertedValues(i, type) ==
    {result.observations[k].value :
         k \in {j \in 1..Len(result.observations) :
                    /\ result.observations[j].date = RawOf(i).date
                    /\ result.observations[j].type = type}}

\* C22: a cell that holds a normalized cervical-mucus value (dry, sticky,
\* creamy, watery, egg-white, spotting) or a normalized OPK value (negative,
\* positive) normalizes to that same value: synonym table, then mapping to
\* the observation vocabulary.
C22_NormalizationIdempotent ==
    Converted =>
        \A i \in 1..DataRowCount :
            /\ CMCellOf(i) \in CMVocabulary =>
                   /\ mapFFCervicalMucus[parseCervicalMucus(CMCellOf(i))] = CMCellOf(i)
                   /\ ConvertedValues(i, "cervical-mucus") = {CMCellOf(i)}
            /\ OPKCellOf(i) \in OPKVocabulary =>
                   /\ mapFFOPKResult[parseOPK(OPKCellOf(i))] = OPKCellOf(i)
                   /\ ConvertedValues(i, "opk") = {OPKCellOf(i)}

\* C22 without the two cervical-mucus values the synonym table does not hold
C22_IdempotentOnSynonyms ==
    (Converted /\ \A i \in 1..DataRowCount : CMCellOf(i) \notin {"egg-white", "spotting"})
        => C22_NormalizationIdempotent

\* What becomes of egg-white and spotting: 'unknown' in the synonym table,
\* which maps to dry and which convertToObservations leaves out
C22_EggWhiteLost ==
    Converted =>
        \A i \in 1..DataRowCount :
            CMCellOf(i) \in {"egg-white", "spotting"} =>
                /\ parseCervicalMucus(CMCellOf(i)) = "unknown"
                /\ mapFFCervicalMucus[parseCervicalMucus(CMCellOf(i))] = "dry"
                /\ ConvertedValues(i, "cervical-mucus") = {}

---------------------------------------------------------------------------
(* C23: a file without a date column                                       *)

CalledValidateCSVStructure == call.fn = "validateCSVStructure" /\ outcome # Pending

\* No header of the file contains 'date' in its lower-cased form
NoDateColumn ==
    /\ call.fn \in {"parseFFCSV", "validateCSVStructure"}
    /\ \A k \in 1..Len(call.parsed.fields) :
           ~includes(toLowerCase(call.parsed.fields[k]), "date")

InSeq(x, s) == \E k \in 1..Len(s) : s[k] = x

\* C23: for a file whose header row has no date column, whatever its data
\* rows, validateCSVStructure returns valid = false with 'date' among the
\* missing columns, and parseFFCSV returns success = false, a non-empty
\* error list and no observation.
C23_NoDateColumnFails ==
    NoDateColumn =>
        /\ CalledValidateCSVStructure =>
               ~outcome.valid /\ InSeq("date", outcome.missingColumns)
        /\ CalledParseFFCSV =>
               /\ ~outcome.success
               /\ outcome.errors # <<>>
               /\ outcome.observations = <<>>

\* The validator's half of C23
C23_ValidatorRejects ==
    (NoDateColumn /\ CalledValidateCSVStructure) =>
        ~outcome.valid /\ InSeq("date", outcome.missingColumns)

\* The parser's half of C23 for the files with a data row: one 'Date is
\* required' error per row
C23_ParserFailsEveryRow ==
    (NoDateColumn /\ CalledParseFFCSV /\ DataRowCount > 0) =>
        /\ ~outcome.success
        /\ Len(outcome.errors) = DataRowCount
        /\ \A k \in 1..Len(outcome.errors) :
               outcome.errors[k].message = "Date is required"
        /\ outcome.observations = <<>>

\* and for the files without a data row: success and no error
C23_HeaderOnlySucceeds ==
    (NoDateColumn /\ CalledParseFFCSV /\ DataRowCount = 0) =>
        outcome.success /\ outcome.errors = <<>>

---------------------------------------------------------------------------
(* C24: the validator and the row parser on the date column                *)

\* parseFFCSV can read the date cells: no row of the file, as parseFFCSV
\* reads it on this host, ends in 'Date is required' while its first cell is
\* filled
ParserReadsDateCells ==
    LET parsedResult == parseFFCSV(call.parsed, hostZone)
    IN  \A i \in 1..DataRowCount :
            trim(call.parsed.data[i].cells[1]) # "" =>
                ~\E k \in 1..Len(parsedResult.errors) :
                     /\ parsedResult.errors[k].row = i + 1
                     /\ parsedResult.errors[k].message = "Date is required"

\* C24: a file that validateCSVStructure reports valid never fails a row
\* with 'Date is required' while the date cell of the row is filled, so a
\* header whose lower-cased form contains 'date' is accepted by both.
C24_ValidatorAgreesWithParser ==
    (CalledValidateCSVStructure /\ outcome.valid) => ParserReadsDateCells

\* C24 for the headers whose lower-cased form is 'date'
C24_AgreeOnExactHeader ==
    (CalledValidateCSVStructure /\ outcome.valid
        /\ toLowerCase(call.parsed.fields[1]) = "date") => ParserReadsDateCells

\* The other direction: a file the validator rejects has no date cell the
\* parser reads
C24_RejectedFilesHaveNoDates ==
    (CalledValidateCSVStructure /\ ~outcome.valid) =>
        parseFFCSV(call.parsed, hostZone).observations = <<>>

---------------------------------------------------------------------------
(* C25: date algebra                                                       *)

CalledAddDays ==
    call.fn \in {"calendar.addDays", "symptoms.addDays"} /\ outcome # Pending

CalledGetDateRange == call.fn = "getDateRange" /\ outcome # Pending

\* addDays(addDays(d,n),-n) = d, addDays(d,n+m) = addDays(addDays(d,n),m),
\* daysBetween(d,d) = 0 and daysBetween(addDays(d,n),d) = n for n >= 0, and
\* addDays(d,n) is the date n days from d
ExactAddDays ==
    /\ outcome.there = call.d + call.n
    /\ outcome.back = call.d
    /\ outcome.sum = outcome.steps
    /\ outcome.same = 0
    /\ call.n >= 0 => outcome.between = call.n

\* The range from d to d + n is the n + 1 dates d, d + 1, ..., d + n
ExactRange ==
    /\ outcome.range = [k \in 1..(Abs(call.n) + 1) |-> call.d + k - 1]
    /\ outcome.between = Abs(call.n)
    /\ outcome.same = 0

\* C25: the date helpers of the calendar predictor, the symptom predictor
\* and the reconciler are exact at day granularity for every date and all
\* numbers of days, whatever the host time zone and its daylight-saving
\* transitions.
C25_DateAlgebra ==
    /\ CalledAddDays => ExactAddDays
    /\ CalledGetDateRange => ExactRange

\* C25 on a host on UTC
C25_DateAlgebraOnUTC == (hostZone = UTC) => C25_DateAlgebra

\* C25 for the calendar predictor's addDays
C25_CalendarAddDays ==
    (call.fn = "calendar.addDays" /\ outcome # Pending) => ExactAddDays

\* C25 for the symptom predictor's addDays
C25_SymptomsAddDays ==
    (call.fn = "symptoms.addDays" /\ outcome # Pending) => ExactAddDays

\* C25 for the reconciler's range enumeration
C25_ReconcilerRange == CalledGetDateRange => ExactRange

\* C25 for daysBetween on dates
C25_DaysBetween ==
    CalledGetDateRange => (outcome.between = Abs(call.n) /\ outcome.same = 0)

---------------------------------------------------------------------------
(* C28: the per-day OPK flag                                               *)

\* The per-day aggregation the call has computed
AnalyzedDays ==
    analyzeDays(SelectSeq(call.observations,
                          LAMBDA o : o.type \in {"cervical-mucus", "opk", "bbt"}),
                SYMPTOM_DEFAULT_OPTIONS)

\* The flag of every aggregated date says whether the date has a positive OPK
OPKFlagsExact ==
    \A k \in 1..Len(AnalyzedDays) :
        AnalyzedDays[k].hasOPKPositive <=> AnalyzedDays[k].date \in PositiveOPKDates

\* C28: in the per-day aggregation of the symptom predictor the flag
\* opkPositive of a date is true exactly when at least one OPK observation
\* on that date is positive, also when the date carries several OPK
\* observations in any order.
C28_OPKPositiveFlag == CalledPredictFromSymptoms => OPKFlagsExact

\* C28 for the lists with at most one OPK observation per date
C28_OPKPositiveFlagOneOPKPerDate ==
    (CalledPredictFromSymptoms /\ OneOPKPerDate) => OPKFlagsExact

\* A date is never flagged without a positive OPK observation on it
C28_FlaggedDatesHavePositiveOPK ==
    CalledPredictFromSymptoms =>
        \A k \in 1..Len(AnalyzedDays) :
            AnalyzedDays[k].hasOPKPositive => AnalyzedDays[k].date \in PositiveOPKDates

---------------------------------------------------------------------------
(* C30: the predictions consumed against minSources                        *)

\* The result reports at least minSources consumed predictions
ConsumedAtLeastMinSources ==
    result.diagnostics.inputPredictions >= EffectiveOptions.minSources

\* C30: whenever reconcile returns a result, the number of predictions it
\* consumed is at least the required minimum, diagnostics.inputPredictions
\* >= options.minSources, also for lists that contain zero-confidence
\* predictions.
C30_ConsumedAtLeastMinSources == IsResult => ConsumedAtLeastMinSources

\* C30 for the lists without a zero-confidence prediction
C30_ConsumedWithoutZeroConfidence ==
    (IsResult /\ Len(Admitted) = Len(predictions)) => ConsumedAtLeastMinSources

\* What the admission test does ensure: the list handed in has at least
\* minSources predictions, and at least one was consumed
C30_HandedInAtLeastMinSources ==
    IsResult => /\ Len(predictions) >= EffectiveOptions.minSources
                /\ result.diagnostics.inputPredictions = Len(Admitted)
                /\ result.diagnostics.inputPredictions >= 1

---------------------------------------------------------------------------
(* C27: the unified window                                                 *)

DayScores == result.diagnostics.dayScores

\* The threshold the call has compared the day probabilities with
EffectiveThreshold ==
    effectiveThreshold(EffectiveOptions, result.diagnostics.sourceAgreement)

ScoredDates == {DayScores[i].date : i \in 1..Len(DayScores)}

\* The highest probability scored for civil date d
ProbabilityOn(d) ==
    LET scored == {DayScores[i].probability :
                       i \in {j \in 1..Len(DayScores) : DayScores[j].date = d}}
    IN  CHOOSE p \in scored : \A q \in scored : q <= p

\* The civil dates whose probability meets the threshold
FertileDates == {d \in ScoredDates : ProbabilityOn(d) >= EffectiveThreshold}

\* a..b is a maximal run of calendar-consecutive fertile dates
IsRun(a, b) ==
    /\ a <= b
    /\ \A d \in a..b : d \in FertileDates
    /\ (a - 1) \notin FertileDates
    /\ (b + 1) \notin FertileDates

\* a..b is the longest run, the earliest of the longest
IsLongestRun(a, b) ==
    /\ IsRun(a, b)
    /\ \A c, e \in FertileDates :
           IsRun(c, e) => (e - c < b - a \/ (e - c = b - a /\ c >= a))

\* d is the date of highest probability in a..b, the earliest of them
IsPeakOf(d, a, b) ==
    /\ d \in a..b
    /\ \A e \in a..b : ProbabilityOn(e) <= ProbabilityOn(d)
    /\ \A e \in a..(d - 1) : ProbabilityOn(e) < ProbabilityOn(d)

UnifiedWindowIsLongestRun ==
    \E a, b \in FertileDates :
        /\ IsLongestRun(a, b)
        /\ result.fertileStart = parseDate(a)
        /\ result.fertileEnd = parseDate(b)
        /\ \E d \in a..b : IsPeakOf(d, a, b) /\ result.ovulationDate = parseDate(d)

\* C27: on the normal path the unified window is the first and the last
\* day of the longest run of calendar-consecutive days whose probability is
\* at least the effective threshold (the earliest of the longest), and
\* ovulationDate is the day of highest probability in that run (the
\* earliest on ties); hence fertileStart <= ovulationDate <= fertileEnd.
C27_UnifiedWindow ==
    TookNormalPath =>
        /\ UnifiedWindowIsLongestRun
        /\ result.fertileStart <= result.ovulationDate
        /\ result.ovulationDate <= result.fertileEnd

\* C27 on a host on UTC
C27_UnifiedWindowOnUTC == HostOnUTC => C27_UnifiedWindow

\* In every host zone: the window is ordered, the ovulation date lies in it,
\* and its first and last day meet the threshold
C27_WindowOrdered ==
    TookNormalPath =>
        /\ result.fertileStart <= result.ovulationDate
        /\ result.ovulationDate <= result.fertileEnd
        /\ formatDate(result.fertileStart) \in FertileDates
        /\ formatDate(result.fertileEnd) \in FertileDates

---------------------------------------------------------------------------
(* C26: durability within a session                                        *)

\* A read has completed for an id whose record was saved and not deleted
ReadOfSaved ==
    /\ call.fn = "getDB"
    /\ call.last.type = "getCycle"
    /\ call.saved[call.last.id] # NoRecord

ReadReturnsSaved == result = call.saved[call.last.id]

\* C26: within one session of the app-wide store, after an add or update of
\* a record has completed, every later read of that id returns that record
\* until it is deleted or the store is cleared, for every sequence of store
\* operations and every point at which the primary IndexedDB store may
\* start failing.
C26_DurableInSession == ReadOfSaved => ReadReturnsSaved

\* C26 for the sessions that never leave IndexedDB
C26_DurableOnPrimary == (ReadOfSaved /\ ~outcome.useFallback) => ReadReturnsSaved

\* C26 for the sessions that start without IndexedDB
C26_DurableWithoutIndexedDB == (ReadOfSaved /\ ~call.indexedDB) => ReadReturnsSaved

\* After the switch the records saved before it are still in IndexedDB and
\* are not read any more
C26_RecordsLeftBehind ==
    (ReadOfSaved /\ ~ReadReturnsSaved)
        => /\ outcome.useFallback
           /\ call.indexedDB
           /\ outcome.primary[call.last.id] # NoRecord

\* C26 for the sessions in which IndexedDB is there and never fails
C26_DurableWhileIndexedDBWorks ==
    (ReadOfSaved /\ call.indexedDB /\ ~outcome.primaryFailing) => ReadReturnsSaved

---------------------------------------------------------------------------
(* C29: one shared connection                                              *)

OpenSession == call.fn = "open"

Requests == outcome.requests

Calls == outcome.calls

RequestsInFlight == {r \in 1..Len(Requests) : Requests[r] = "pending"}

OpenConnections == {r \in 1..Len(Requests) : Requests[r] = "open"}

ResolvedCalls == {i \in 1..Len(Calls) : Calls[i].state = "resolved"}

\* No second request is started while one is in flight or has delivered a
\* connection that is open
NoSecondRequest == Cardinality(RequestsInFlight \cup OpenConnections) <= 1

\* C29: open() shares one connection: calls made while an open is in
\* flight or after it has completed never start a second underlying open
\* request and all resolve to the same connection, under every
\* interleaving of open() calls; only after a failed open does a later
\* open() start a new request.
C29_OneConnection ==
    OpenSession =>
        /\ NoSecondRequest
        /\ \A i, j \in ResolvedCalls : Calls[i].connection = Calls[j].connection
        /\ \A r \in 2..Len(Requests) : Requests[r - 1] = "error"

\* C29 with the closing of connections: calls made while an open is in
\* flight or while the connection it has delivered is open never start a
\* second request and resolve to that connection; a later open() starts a
\* new request only after a failed open or after the connection was
\* closed, by close() or by the browser.
C29_OneConnectionUntilClosed ==
    OpenSession =>
        /\ NoSecondRequest
        /\ outcome.db # NoConnection => OpenConnections = {outcome.db}
        /\ outcome.opening # NoConnection => RequestsInFlight = {outcome.opening}
        /\ \A i, j \in ResolvedCalls :
               Calls[i].connection # Calls[j].connection
                   => \E c \in {Calls[i].connection, Calls[j].connection} :
                          Requests[c] = "closed"
        /\ \A i \in ResolvedCalls :
               Calls[i].request # NoConnection => Calls[i].connection = Calls[i].request
        /\ \A r \in 2..Len(Requests) : Requests[r - 1] \in {"error", "closed"}

\* Three calls share the connection of one request: the call that started
\* it, a call made while it was in flight and a call made after it had
\* completed; an earlier request had failed
C29_Witness ==
    /\ OpenSession
    /\ Len(Requests) = 2
    /\ Requests[1] = "error"
    /\ Requests[2] = "open"
    /\ \E i, j, k \in ResolvedCalls :
          /\ i < j /\ j < k
          /\ Calls[i].request = 2 /\ Calls[j].request = 2
          /\ Calls[k].request = NoConnection
          /\ Calls[i].connection = 2 /\ Calls[j].connection = 2 /\ Calls[k].connection = 2

\* C29 for the sessions in which no connection is closed
C29_OneConnectionNeverClosed ==
    (OpenSession /\ \A r \in 1..Len(Requests) : Requests[r] # "closed")
        => /\ NoSecondRequest
           /\ \A i, j \in ResolvedCalls : Calls[i].connection = Calls[j].connection
           /\ \A r \in 2..Len(Requests) : Requests[r - 1] = "error"

====
